---- MODULE Spec2Model ----
(***************************************************************************)
(* Model of the form layer of the IDTA submodel editor frontend:           *)
(*   - the cardinality helpers of types/aas-elements.ts,                   *)
(*   - the client validation schema built by generateZodSchema and the     *)
(*     default values built by generateElementDefaults (useSubmodelForm),  *)
(*   - the ListField component (add / remove / move over useFieldArray),   *)
(*   - the useSubmodelForm hook (loadSchema, validate, export, resetForm). *)
(*                                                                         *)
(* JavaScript strings are sequences of one-character strings, so that      *)
(* trim, startsWith, endsWith, includes and Number() are computed and not  *)
(* assumed. JavaScript values are records tagged by the field k.           *)
(***************************************************************************)
EXTENDS Integers, Sequences, FiniteSets, Bags, TLC

VARIABLES
    \* cardinality helpers (pure functions applied to one input)
    cardIn,            \* the cardinality string handed to the helpers
    cardCur,           \* result of the normalizeCardinality calls made so far
    cardPrev,          \* value cardCur had before the last normalizeCardinality call
    cardCalls,         \* number of normalizeCardinality calls chained so far
    cardRes,           \* results of isRequired / getMinItems / getMaxItems / allowsMultiple
    \* client validation (zod) of one element
    zodElement,        \* the UIElementSchema being validated
    zodInput,          \* the ElementFormData handed to the resolver
    zodResult,         \* the outcome of safeParse
    zodOp,             \* history: the last operation on the form value
    rendered,          \* what AASRenderer renders for the element
    \* ListField + useSubmodelForm
    schema,            \* useSubmodelForm: schema state (SubmodelUISchema | null)
    fields,            \* useFieldArray: the items of the list, in order
    nameValue,         \* form value of the top-level Property
    selectedTemplate,  \* App: selectedTemplate?.name
    loading,           \* useSubmodelForm: loading
    error,             \* useSubmodelForm: error
    validating,        \* useSubmodelForm: validating
    validationResult,  \* useSubmodelForm: validationResult
    inflight,          \* requests awaiting their response
    lastOp,            \* history: the last handler that ran
    snapshot,          \* history: the items as they were before the last Add Item
    \* ExportPanel
    exporting,         \* ExportPanel: exporting (the format being exported, or null)
    verifying,         \* ExportPanel: verifying
    panelError,        \* ExportPanel: error
    \* useTemplateList
    autoLoad,          \* useTemplateList: the autoLoad option
    search,            \* useTemplateList: search
    templates,         \* useTemplateList: templates
    total,             \* useTemplateList: total
    cached,            \* useTemplateList: cached
    listLoading,       \* useTemplateList: loading
    listError,         \* useTemplateList: error
    timer,             \* the pending setTimeout of the debounced search effect, or null
    listInflight,      \* template-list and refresh requests awaiting their response
    unchangedFor       \* history: milliseconds since search last changed (capped)

cardVars == <<cardIn, cardCur, cardPrev, cardCalls, cardRes>>
zodVars == <<zodElement, zodInput, zodResult, zodOp, rendered>>
listVars == <<fields, lastOp, snapshot>>
hookVars == <<schema, nameValue, selectedTemplate, loading, error, validating,
              validationResult, inflight>>
panelVars == <<exporting, verifying, panelError>>
templateVars == <<autoLoad, search, templates, total, cached, listLoading, listError,
                  timer, listInflight, unchangedFor>>
vars == <<cardIn, cardCur, cardPrev, cardCalls, cardRes,
          zodElement, zodInput, zodResult, zodOp, rendered,
          schema, fields, nameValue, selectedTemplate, loading, error,
          validating, validationResult, inflight, lastOp, snapshot,
          exporting, verifying, panelError,
          autoLoad, search, templates, total, cached, listLoading, listError,
          timer, listInflight, unchangedFor>>

(***************************************************************************)
(* JavaScript values                                                       *)
(***************************************************************************)
JStr(s) == [k |-> "string", s |-> s]
JNum(neg, whole, frac) == [k |-> "number", neg |-> neg, whole |-> whole, frac |-> frac]
JInt(n) == JNum(n < 0, IF n < 0 THEN -n ELSE n, <<>>)
JBool(b) == [k |-> "boolean", b |-> b]
\* a string whose characters the code never inspects (identifiers, messages)
JText(t) == [k |-> "string", text |-> t]
JNaN == [k |-> "nan"]
JNull == [k |-> "null"]
JUndefined == [k |-> "undefined"]
JFunction(name) == [k |-> "function", name |-> name]
TypeError == [k |-> "throw", error |-> "TypeError"]
Unset == [k |-> "unset"]

\* ToBoolean, as used by `a || b` and `if (a)`.
Truthy(v) ==
    CASE v.k = "string" -> IF "s" \in DOMAIN v THEN v.s # <<>> ELSE v.text # ""
      [] v.k = "number" -> ~(v.whole = 0 /\ v.frac = <<>>)
      [] v.k = "boolean" -> v.b
      [] v.k \in {"nan", "null", "undefined"} -> FALSE
      [] OTHER -> TRUE

(***************************************************************************)
(* String.prototype: trim, startsWith, endsWith, includes                  *)
(***************************************************************************)
WhiteSpace == {" ", "\t", "\n"}

RECURSIVE TrimStart(_)
TrimStart(s) ==
    IF s # <<>> /\ Head(s) \in WhiteSpace THEN TrimStart(Tail(s)) ELSE s

RECURSIVE TrimEnd(_)
TrimEnd(s) ==
    IF s # <<>> /\ s[Len(s)] \in WhiteSpace
    THEN TrimEnd(SubSeq(s, 1, Len(s) - 1))
    ELSE s

Trim(s) == TrimEnd(TrimStart(s))

StartsWith(s, p) == Len(s) >= Len(p) /\ SubSeq(s, 1, Len(p)) = p

EndsWith(s, p) == Len(s) >= Len(p) /\ SubSeq(s, Len(s) - Len(p) + 1, Len(s)) = p

Includes(s, p) ==
    \E i \in 1..(Len(s) - Len(p) + 1) : SubSeq(s, i, i + Len(p) - 1) = p

(***************************************************************************)
(* types/aas-elements.ts: cardinality helpers                              *)
(***************************************************************************)
BR01 == <<"[", "0", ".", ".", "1", "]">>
BR0N == <<"[", "0", ".", ".", "*", "]">>
BR1N == <<"[", "1", ".", ".", "*", "]">>
BR1 == <<"[", "1", "]">>
BR0 == <<"[", "0", "]">>
ZeroToOne == <<"Z", "e", "r", "o", "T", "o", "O", "n", "e">>
ZeroToMany == <<"Z", "e", "r", "o", "T", "o", "M", "a", "n", "y">>
OneToMany == <<"O", "n", "e", "T", "o", "M", "a", "n", "y">>
One == <<"O", "n", "e">>
Zero == <<"Z", "e", "r", "o">>

\* The own properties of the object literal `mapping`.
mappingOwn ==
    (ZeroToOne :> BR01) @@ (ZeroToMany :> BR0N) @@ (OneToMany :> BR1N)
        @@ (One :> BR1) @@ (Zero :> BR0)

\* `mapping` is a plain object literal, so a key it does not own is looked up
\* on Object.prototype: these keys yield a function; a key that is no member
\* of Object.prototype yields undefined.
ObjectPrototypeKeys ==
    { <<"c", "o", "n", "s", "t", "r", "u", "c", "t", "o", "r">>,
      <<"t", "o", "S", "t", "r", "i", "n", "g">>,
      <<"v", "a", "l", "u", "e", "O", "f">> }

\* mapping[key]
mappingGet(key) ==
    IF key \in DOMAIN mappingOwn THEN JStr(mappingOwn[key])
    ELSE IF key \in ObjectPrototypeKeys THEN JFunction("Object.prototype")
    ELSE JUndefined

\* /^\\d+$/.test(s): in a regex literal `\\` is a literal backslash, so the
\* pattern is: a backslash followed by one or more letters d.
DigitsRegexTest(s) ==
    /\ Len(s) >= 2
    /\ s[1] = "\\"
    /\ \A i \in 2..Len(s) : s[i] = "d"

\* normalizeCardinality(cardinality); the argument is any JavaScript value,
\* the result a JavaScript value or TypeError (calling .trim on a non-string).
normalizeCardinality(cardinality) ==
    LET base == IF Truthy(cardinality) THEN cardinality ELSE JStr(<<>>)
    IN  IF base.k # "string" THEN TypeError
        ELSE LET trimmed == Trim(base.s)
             IN  IF Truthy(mappingGet(trimmed)) THEN mappingGet(trimmed)
                 ELSE IF StartsWith(trimmed, <<"[">>) /\ EndsWith(trimmed, <<"]">>)
                      THEN JStr(trimmed)
                 ELSE IF Includes(trimmed, <<".", ".">>)
                      THEN JStr(<<"[">> \o trimmed \o <<"]">>)
                 ELSE IF DigitsRegexTest(trimmed)
                      THEN JStr(<<"[">> \o trimmed \o <<"]">>)
                 ELSE JStr(trimmed)

\* a variant of isRequired that knows '[1]' only
isRequiredOnlyOne(cardinality) ==
    LET normalized == normalizeCardinality(cardinality)
    IN  normalized = JStr(BR1)

\* isRequired(cardinality): `===` against two string literals.
isRequired(cardinality) ==
    LET normalized == normalizeCardinality(cardinality)
    IN  normalized = JStr(BR1) \/ normalized = JStr(BR1N)

\* getMinItems(cardinality)
getMinItems(cardinality) ==
    LET normalized == normalizeCardinality(cardinality)
    IN  IF normalized = JStr(BR1N) THEN 1
        ELSE IF normalized = JStr(BR0N) \/ normalized = JStr(BR01) THEN 0
        ELSE IF normalized = JStr(BR1) THEN 1
        ELSE 0

\* a variant of getMaxItems that bounds '[0..1]' only
getMaxItemsOnlyZeroToOne(cardinality) ==
    LET normalized == normalizeCardinality(cardinality)
    IN  IF normalized.k # "string" THEN TypeError
        ELSE IF Includes(normalized.s, <<"*">>) THEN JUndefined
        ELSE IF normalized = JStr(BR01) THEN JInt(1)
        ELSE JUndefined

\* getMaxItems(cardinality): a number, undefined, or TypeError when
\* normalized is not a string (normalized.includes is then not a function).
getMaxItems(cardinality) ==
    LET normalized == normalizeCardinality(cardinality)
    IN  IF normalized.k # "string" THEN TypeError
        ELSE IF Includes(normalized.s, <<"*">>) THEN JUndefined
        ELSE IF normalized = JStr(BR01) \/ normalized = JStr(BR1) THEN JInt(1)
        ELSE JUndefined

\* allowsMultiple(cardinality)
allowsMultiple(cardinality) ==
    LET normalized == normalizeCardinality(cardinality)
    IN  IF normalized.k # "string" THEN TypeError
        ELSE JBool(Includes(normalized.s, <<"*">>) \/ Includes(normalized.s, <<".", ".">>))

(***************************************************************************)
(* Number(value) and the numeric strings it accepts                        *)
(***************************************************************************)
Digits == {"0", "1", "2", "3", "4", "5", "6", "7", "8", "9"}

DigitValue(c) ==
    CASE c = "0" -> 0 [] c = "1" -> 1 [] c = "2" -> 2 [] c = "3" -> 3
      [] c = "4" -> 4 [] c = "5" -> 5 [] c = "6" -> 6 [] c = "7" -> 7
      [] c = "8" -> 8 [] c = "9" -> 9

AllDigits(s) == \A i \in 1..Len(s) : s[i] \in Digits

RECURSIVE DigitsValue(_)
DigitsValue(s) ==
    IF s = <<>> THEN 0
    ELSE 10 * DigitsValue(SubSeq(s, 1, Len(s) - 1)) + DigitValue(s[Len(s)])

RECURSIVE StripTrailingZeros(_)
StripTrailingZeros(s) ==
    IF s # <<>> /\ s[Len(s)] = "0"
    THEN StripTrailingZeros(SubSeq(s, 1, Len(s) - 1))
    ELSE s

\* StringToNumber for decimal literals: optional sign, digits, optional
\* fraction. (Exponents, hex/octal/binary literals and "Infinity" need the
\* letters e, x, o, b or I, which the value alphabet does not contain.)
StringToNumber(s) ==
    LET t == Trim(s)
        signed == t # <<>> /\ Head(t) \in {"+", "-"}
        neg == t # <<>> /\ Head(t) = "-"
        body == IF signed THEN Tail(t) ELSE t
        dots == {i \in 1..Len(body) : body[i] = "."}
        dot == IF dots = {} THEN Len(body) + 1 ELSE CHOOSE i \in dots : \A j \in dots : i <= j
        whole == SubSeq(body, 1, dot - 1)
        frac == SubSeq(body, dot + 1, Len(body))
    IN  IF t = <<>> THEN JInt(0)
        ELSE IF AllDigits(whole) /\ AllDigits(frac) /\ (whole # <<>> \/ frac # <<>>)
        THEN LET w == DigitsValue(whole)
                 f == StripTrailingZeros(frac)
             IN  JNum(neg /\ ~(w = 0 /\ f = <<>>), w, f)
        ELSE JNaN

\* Number(value), the conversion z.coerce.number() applies first.
ToNumber(v) ==
    CASE v.k = "number" -> v
      [] v.k = "nan" -> JNaN
      [] v.k = "undefined" -> JNaN
      [] v.k = "null" -> JInt(0)
      [] v.k = "boolean" -> IF v.b THEN JInt(1) ELSE JInt(0)
      [] v.k = "string" -> StringToNumber(v.s)
      [] OTHER -> JNaN

(***************************************************************************)
(* zod: schemas as data, and safeParse                                     *)
(***************************************************************************)
ZString == [t |-> "string", min |-> 0]
ZStringMin1 == [t |-> "string", min |-> 1]
ZNumber(coerce, int) == [t |-> "number", coerce |-> coerce, int |-> int]
ZBoolean == [t |-> "boolean"]
\* a variant of z.any() that accepts strings only
ZAnyStringsOnly == ZString
ZAny == [t |-> "any"]
ZOptional(inner) == [t |-> "optional", inner |-> inner]
ZNullable(inner) == [t |-> "nullable", inner |-> inner]
ZArray(item, min) == [t |-> "array", item |-> item, min |-> min]
ZRecord(item) == [t |-> "record", item |-> item]
\* keys: the shape's keys in declaration order; shape: key -> schema
ZObject(keys, shape) == [t |-> "object", keys |-> keys, shape |-> shape]

\* JavaScript objects and arrays: props is a sequence of <<key, value>> pairs.
JObj(props) == [k |-> "object", props |-> props]
JArr(items) == [k |-> "array", items |-> items]

HasKey(obj, key) == \E i \in 1..Len(obj.props) : obj.props[i][1] = key

\* obj[key]: undefined when the key is absent
GetKey(obj, key) ==
    IF HasKey(obj, key)
    THEN obj.props[CHOOSE i \in 1..Len(obj.props) : obj.props[i][1] = key][2]
    ELSE JUndefined

Issue(code, path) == [code |-> code, path |-> path]
Ok(v) == [ok |-> TRUE, value |-> v, issues |-> <<>>]
Fail(issues) == [ok |-> FALSE, value |-> JUndefined, issues |-> issues]

RECURSIVE Flatten(_)
Flatten(seqs) == IF seqs = <<>> THEN <<>> ELSE Head(seqs) \o Flatten(Tail(seqs))

\* schema._parse(value) at `path`; soft failures are issues, never exceptions.
RECURSIVE ZodParse(_, _, _)
ZodParse(z, v, path) ==
    CASE z.t = "any" -> Ok(v)
      [] z.t = "string" ->
            IF v.k # "string" THEN Fail(<<Issue("invalid_type", path)>>)
            ELSE IF Len(v.s) < z.min THEN Fail(<<Issue("too_small", path)>>)
            ELSE Ok(v)
      [] z.t = "boolean" ->
            IF v.k # "boolean" THEN Fail(<<Issue("invalid_type", path)>>) ELSE Ok(v)
      [] z.t = "number" ->
            LET n == IF z.coerce THEN ToNumber(v) ELSE v
            IN  IF n.k # "number" THEN Fail(<<Issue("invalid_type", path)>>)
                ELSE IF z.int /\ n.frac # <<>> THEN Fail(<<Issue("invalid_type", path)>>)
                ELSE Ok(n)
      [] z.t = "optional" ->
            IF v.k = "undefined" THEN Ok(JUndefined) ELSE ZodParse(z.inner, v, path)
      [] z.t = "nullable" ->
            IF v.k = "null" THEN Ok(JNull) ELSE ZodParse(z.inner, v, path)
      [] z.t = "array" ->
            IF v.k # "array" THEN Fail(<<Issue("invalid_type", path)>>)
            ELSE LET rs == [i \in 1..Len(v.items) |->
                               ZodParse(z.item, v.items[i], Append(path, ToString(i - 1)))]
                     small == IF Len(v.items) < z.min
                              THEN <<Issue("too_small", path)>> ELSE <<>>
                     issues == small \o Flatten([i \in 1..Len(rs) |-> rs[i].issues])
                 IN  IF issues # <<>> THEN Fail(issues)
                     ELSE Ok(JArr([i \in 1..Len(rs) |-> rs[i].value]))
      [] z.t = "record" ->
            IF v.k # "object" THEN Fail(<<Issue("invalid_type", path)>>)
            ELSE LET rs == [i \in 1..Len(v.props) |->
                               ZodParse(z.item, v.props[i][2], Append(path, v.props[i][1]))]
                     issues == Flatten([i \in 1..Len(rs) |-> rs[i].issues])
                 IN  IF issues # <<>> THEN Fail(issues)
                     ELSE Ok(JObj([i \in 1..Len(rs) |-> <<v.props[i][1], rs[i].value>>]))
      [] z.t = "object" ->
            IF v.k # "object" THEN Fail(<<Issue("invalid_type", path)>>)
            ELSE LET rs == [i \in 1..Len(z.keys) |->
                               ZodParse(z.shape[i], GetKey(v, z.keys[i]),
                                        Append(path, z.keys[i]))]
                     issues == Flatten([i \in 1..Len(rs) |-> rs[i].issues])
                     kept == SelectSeq([i \in 1..Len(rs) |-> <<z.keys[i], rs[i].value>>],
                                       LAMBDA p : HasKey(v, p[1]) \/ p[2].k # "undefined")
                 IN  IF issues # <<>> THEN Fail(issues) ELSE Ok(JObj(kept))

\* schema.safeParse(value), as the zodResolver runs it
ZodSafeParse(z, v) == ZodParse(z, v, <<>>)

(***************************************************************************)
(* useSubmodelForm.ts: generateZodSchema, generateElementDefaults          *)
(***************************************************************************)
\* Optional fields of UIElementSchema: absent means undefined / empty.
Field(element, name) == IF name \in DOMAIN element THEN element[name] ELSE JUndefined
ChildrenOf(element, name) == IF name \in DOMAIN element THEN element[name] ELSE <<>>

\* null or undefined (a schema record carries no tag k)
Nullish(x) == "k" \in DOMAIN x /\ x.k \in {"undefined", "null"}

\* a ?? b
Coalesce(a, b) == IF Nullish(a) THEN b ELSE a

\* a || b
OrElse(a, b) == IF Truthy(a) THEN a ELSE b

XsString == <<"x", "s", ":", "s", "t", "r", "i", "n", "g">>
XsDouble == <<"x", "s", ":", "d", "o", "u", "b", "l", "e">>

\* a variant of the Property branch with z.number() in place of
\* z.coerce.number()
PropertyValueSchemaNoCoerce(valueType) ==
    IF Includes(valueType, <<"i", "n", "t">>) \/ Includes(valueType, <<"I", "n", "t", "e", "g", "e", "r">>)
    THEN ZNumber(FALSE, TRUE)
    ELSE IF Includes(valueType, <<"f", "l", "o", "a", "t">>) \/ Includes(valueType, <<"d", "o", "u", "b", "l", "e">>)
            \/ Includes(valueType, <<"d", "e", "c", "i", "m", "a", "l">>)
    THEN ZNumber(FALSE, FALSE)
    ELSE IF Includes(valueType, <<"b", "o", "o", "l">>) THEN ZBoolean
    ELSE IF Includes(valueType, <<"d", "a", "t", "e">>) THEN ZString
    ELSE ZString

\* a variant of the Property branch that tests "bool" before "int"
PropertyValueSchemaBoolFirst(valueType) ==
    IF Includes(valueType, <<"b", "o", "o", "l">>) THEN ZBoolean
    ELSE IF Includes(valueType, <<"i", "n", "t">>) \/ Includes(valueType, <<"I", "n", "t", "e", "g", "e", "r">>)
    THEN ZNumber(TRUE, TRUE)
    ELSE IF Includes(valueType, <<"f", "l", "o", "a", "t">>) \/ Includes(valueType, <<"d", "o", "u", "b", "l", "e">>)
            \/ Includes(valueType, <<"d", "e", "c", "i", "m", "a", "l">>)
    THEN ZNumber(TRUE, FALSE)
    ELSE IF Includes(valueType, <<"d", "a", "t", "e">>) THEN ZString
    ELSE ZString

\* the Property branch: substring classification of valueType
PropertyValueSchema(valueType) ==
    IF Includes(valueType, <<"i", "n", "t">>) \/ Includes(valueType, <<"I", "n", "t", "e", "g", "e", "r">>)
    THEN ZNumber(TRUE, TRUE)
    ELSE IF Includes(valueType, <<"f", "l", "o", "a", "t">>) \/ Includes(valueType, <<"d", "o", "u", "b", "l", "e">>)
            \/ Includes(valueType, <<"d", "e", "c", "i", "m", "a", "l">>)
    THEN ZNumber(TRUE, FALSE)
    ELSE IF Includes(valueType, <<"b", "o", "o", "l">>) THEN ZBoolean
    ELSE IF Includes(valueType, <<"d", "a", "t", "e">>) THEN ZString
    ELSE ZString

\* obj[key] = value on the properties of an object: a key the object already
\* has keeps its place and takes the new value
Assign(props, key, value) ==
    IF \E i \in 1..Len(props) : props[i][1] = key
    THEN [i \in 1..Len(props) |-> IF props[i][1] = key THEN <<key, value>> ELSE props[i]]
    ELSE Append(props, <<key, value>>)

\* for (const child of children) obj[child.idShort] = ...: the assignments in order
RECURSIVE AssignAll(_, _)
AssignAll(props, pairs) ==
    IF pairs = <<>> THEN props
    ELSE AssignAll(Assign(props, Head(pairs)[1], Head(pairs)[2]), Tail(pairs))

RECURSIVE generateZodSchema(_)
generateZodSchema(element) ==
    LET required == isRequired(JStr(element.cardinality))
        OptNull(z) == IF required THEN z ELSE ZNullable(ZOptional(z))
        Assigned(children) ==
            AssignAll(<<>>, [i \in 1..Len(children) |->
                                <<children[i].idShort, generateZodSchema(children[i])>>])
        SchemasOf(children) ==
            [i \in 1..Len(Assigned(children)) |-> Assigned(children)[i][2]]
        KeysOf(children) ==
            [i \in 1..Len(Assigned(children)) |-> Assigned(children)[i][1]]
    IN  CASE element.modelType = "Property" ->
               LET valueType == OrElse(Field(element, "valueType"), JStr(XsString)).s
               IN  ZObject(<<"value">>, <<OptNull(PropertyValueSchema(valueType))>>)
          [] element.modelType = "MultiLanguageProperty" ->
               ZObject(<<"value">>, <<ZOptional(ZRecord(ZString))>>)
          [] element.modelType = "SubmodelElementCollection" ->
               LET children == ChildrenOf(element, "elements")
               IN  ZObject(<<"elements">>,
                           <<ZObject(KeysOf(children), SchemasOf(children))>>)
          [] element.modelType = "SubmodelElementList" ->
               LET itemTemplate == Field(element, "itemTemplate")
                   itemSchema == IF Nullish(itemTemplate)
                                 THEN ZAny
                                 ELSE generateZodSchema(itemTemplate)
                   minItems == IF element.cardinality = BR1N THEN 1 ELSE 0
               IN  ZObject(<<"items">>, <<ZArray(itemSchema, minItems)>>)
          [] element.modelType = "File" ->
               ZObject(<<"value", "contentType">>,
                       <<IF required THEN ZStringMin1 ELSE ZOptional(ZString),
                         ZOptional(ZString)>>)
          [] element.modelType = "Range" ->
               LET valueType == OrElse(Field(element, "valueType"), JStr(XsDouble)).s
                   numSchema == ZNumber(TRUE, Includes(valueType, <<"i", "n", "t">>))
               IN  ZObject(<<"min", "max">>, <<OptNull(numSchema), OptNull(numSchema)>>)
          [] element.modelType = "ReferenceElement" ->
               ZObject(<<"value">>,
                       <<IF required THEN ZStringMin1 ELSE ZOptional(ZString)>>)
          [] element.modelType = "Entity" ->
               LET stmts == ChildrenOf(element, "statements")
               IN  ZObject(<<"globalAssetId", "statements">>,
                           <<ZOptional(ZString),
                             ZObject(KeysOf(stmts), SchemasOf(stmts))>>)
          [] OTHER -> ZAny

\* a variant of generateElementDefaults that treats every element as a leaf
generateElementDefaultsLeaf(element) == JObj(<<<<"value", JStr(<<>>)>>>>)

RECURSIVE generateElementDefaults(_)
generateElementDefaults(element) ==
    LET DefaultsOf(children) ==
            AssignAll(<<>>, [i \in 1..Len(children) |->
                                <<children[i].idShort, generateElementDefaults(children[i])>>])
        Empty == JStr(<<>>)
    IN  CASE element.modelType = "Property" ->
               JObj(<<<<"value", Coalesce(Field(element, "value"), Empty)>>>>)
          [] element.modelType = "MultiLanguageProperty" ->
               JObj(<<<<"value", Coalesce(Field(element, "value"), JObj(<<>>))>>>>)
          [] element.modelType = "SubmodelElementCollection" ->
               JObj(<<<<"elements", JObj(DefaultsOf(ChildrenOf(element, "elements")))>>>>)
          [] element.modelType = "SubmodelElementList" ->
               LET items == ChildrenOf(element, "items")
               IN  JObj(<<<<"items",
                           JArr([i \in 1..Len(items) |-> generateElementDefaults(items[i])])>>>>)
          [] element.modelType = "File" ->
               JObj(<<<<"value", Coalesce(Field(element, "value"), Empty)>>,
                      <<"contentType", Coalesce(Field(element, "contentType"), Empty)>>>>)
          [] element.modelType = "Range" ->
               JObj(<<<<"min", Coalesce(Field(element, "min"), Empty)>>,
                      <<"max", Coalesce(Field(element, "max"), Empty)>>>>)
          [] element.modelType = "ReferenceElement" ->
               JObj(<<<<"value", Coalesce(Field(element, "value"), Empty)>>>>)
          [] element.modelType = "Entity" ->
               JObj(<<<<"globalAssetId", Coalesce(Field(element, "globalAssetId"), Empty)>>,
                      <<"statements", JObj(DefaultsOf(ChildrenOf(element, "statements")))>>>>)
          [] OTHER ->
               JObj(<<<<"value", Coalesce(Field(element, "value"), Empty)>>>>)

\* generateDefaultValues(schema)
generateDefaultValues(sch) ==
    JObj(<<<<"elements",
            JObj(AssignAll(<<>>, [i \in 1..Len(sch.elements) |->
                    <<sch.elements[i].idShort, generateElementDefaults(sch.elements[i])>>]))>>>>)

(***************************************************************************)
(* AASRenderer/index.tsx: what is rendered for an element                  *)
(***************************************************************************)
\* An editable field component, with the renderings of its children.
FieldComponent(component, children) ==
    [component |-> component, editable |-> TRUE, children |-> children]
\* A label followed by a span of text: nothing to edit.
Marker(class, text) ==
    [component |-> "span", editable |-> FALSE, class |-> class, text |-> text]

RECURSIVE renderElement(_)
renderElement(element) ==
    LET AASRendererOf(child) ==
            [modelType |-> child.modelType, idShort |-> child.idShort,
             element |-> renderElement(child)]
        RenderAll(children) == [i \in 1..Len(children) |-> AASRendererOf(children[i])]
    IN  CASE element.modelType = "Property" -> FieldComponent("PropertyField", <<>>)
          [] element.modelType = "SubmodelElementCollection" ->
               FieldComponent("CollectionField", RenderAll(ChildrenOf(element, "elements")))
          [] element.modelType = "SubmodelElementList" -> FieldComponent("ListField", <<>>)
          [] element.modelType = "MultiLanguageProperty" -> FieldComponent("MultiLangField", <<>>)
          [] element.modelType = "File" -> FieldComponent("FileField", <<>>)
          [] element.modelType = "Range" -> FieldComponent("RangeField", <<>>)
          [] element.modelType = "ReferenceElement" -> FieldComponent("ReferenceField", <<>>)
          [] element.modelType = "Entity" ->
               FieldComponent("CollectionField",
                   (IF Field(element, "globalAssetId") # JUndefined
                    THEN <<FieldComponent("PropertyField", <<>>)>> ELSE <<>>)
                       \o RenderAll(ChildrenOf(element, "statements")))
          [] element.modelType = "Blob" ->
               Marker("aas-blob", <<"Blob editing not supported in UI">>)
          [] element.modelType \in {"RelationshipElement", "AnnotatedRelationshipElement"} ->
               FieldComponent("aas-relationship",
                   <<FieldComponent("ReferenceField", <<>>),
                     FieldComponent("ReferenceField", <<>>)>>)
          [] element.modelType \in {"Operation", "Capability", "BasicEventElement"} ->
               Marker("aas-readonly", <<element.modelType, " is read-only">>)
          [] OTHER ->
               Marker("aas-unknown", <<"Unsupported element type: ", element.modelType>>)

\* <AASRenderer schema=...>: the wrapper div with data-model-type and
\* data-id-short around renderElement()
AASRenderer(element) ==
    [modelType |-> element.modelType, idShort |-> element.idShort,
     element |-> renderElement(element)]

(***************************************************************************)
(* Bounds and input domains                                                *)
(***************************************************************************)
MaxCardLen == 3          \* length of the exhaustively enumerated cardinality strings
MaxNormalizeCalls == 2   \* normalizeCardinality calls chained on one input

CardAlphabet == {"[", "]", ".", "*", "0", "1", " ", "\\", "d"}

RECURSIVE StringsUpTo(_, _)
StringsUpTo(alphabet, n) ==
    IF n = 0 THEN {<<>>}
    ELSE LET shorter == StringsUpTo(alphabet, n - 1)
         IN  shorter \cup {Append(s, c) : s \in shorter, c \in alphabet}

\* Encodings that occur in templates, malformed ones, and identifiers that
\* are also names of Object.prototype members.
NamedCardinalities ==
    { BR01, BR0N, BR1N, BR1, BR0, ZeroToOne, ZeroToMany, OneToMany, One, Zero,
      <<"[", "2", ".", ".", "5", "]">>, <<"[", "1", ".", ".", "1", "]">>,
      <<"0", ".", ".", "1">>, <<"1", ".", ".", "*">>,
      <<"o", "n", "e">>, <<"m", "a", "n", "y">>,
      <<"\\", "d", "d", "d">> }
        \cup ObjectPrototypeKeys

Padded(s) == {s, <<" ">> \o s, s \o <<" ">>, <<" ">> \o s \o <<"\t">>}

CardinalityInputs ==
    {JStr(s) : s \in StringsUpTo(CardAlphabet, MaxCardLen)}
        \cup {JStr(p) : p \in UNION {Padded(s) : s \in NamedCardinalities}}

(***************************************************************************)
(* Idle values of the variables a specification does not use               *)
(***************************************************************************)
CardIdle ==
    /\ cardIn = Unset
    /\ cardCur = Unset
    /\ cardPrev = Unset
    /\ cardCalls = 0
    /\ cardRes = Unset

ZodIdle ==
    /\ zodElement = Unset
    /\ zodInput = Unset
    /\ zodResult = Unset
    /\ zodOp = "none"
    /\ rendered = Unset

PanelIdle ==
    /\ exporting = JNull
    /\ verifying = FALSE
    /\ panelError = JNull

TemplateListIdle ==
    /\ autoLoad = TRUE
    /\ search = ""
    /\ templates = <<>>
    /\ total = 0
    /\ cached = FALSE
    /\ listLoading = FALSE
    /\ listError = JNull
    /\ timer = JNull
    /\ listInflight = EmptyBag
    /\ unchangedFor = 0

FormIdle ==
    /\ PanelIdle
    /\ schema = JNull
    /\ fields = <<>>
    /\ nameValue = Unset
    /\ selectedTemplate = JNull
    /\ loading = FALSE
    /\ error = JNull
    /\ validating = FALSE
    /\ validationResult = JNull
    /\ inflight = EmptyBag
    /\ lastOp = "none"
    /\ snapshot = <<>>

(***************************************************************************)
(* SpecCard: the cardinality helpers applied to one cardinality string     *)
(***************************************************************************)
NoCardResults ==
    [isRequired |-> Unset, minItems |-> Unset, maxItems |-> Unset,
     allowsMultiple |-> Unset]

InitCard ==
    /\ cardIn \in CardinalityInputs
    /\ cardCur = cardIn
    /\ cardPrev = Unset
    /\ cardCalls = 0
    /\ cardRes = NoCardResults
    /\ ZodIdle
    /\ FormIdle
    /\ TemplateListIdle

\* cardCur = normalizeCardinality(cardCur): the helper applied to its own result.
CallNormalizeCardinality ==
    /\ cardCalls < MaxNormalizeCalls
    /\ cardCur.k # "throw"
    /\ cardPrev' = cardCur
    /\ cardCur' = normalizeCardinality(cardCur)
    /\ cardCalls' = cardCalls + 1
    /\ UNCHANGED <<cardIn, cardRes, zodVars, templateVars, hookVars, listVars, panelVars>>

CallIsRequired ==
    /\ cardRes.isRequired = Unset
    /\ cardRes' = [cardRes EXCEPT !.isRequired = JBool(isRequired(cardIn))]
    /\ UNCHANGED <<cardIn, cardCur, cardPrev, cardCalls, zodVars, templateVars, hookVars, listVars, panelVars>>

CallGetMinItems ==
    /\ cardRes.minItems = Unset
    /\ cardRes' = [cardRes EXCEPT !.minItems = JInt(getMinItems(cardIn))]
    /\ UNCHANGED <<cardIn, cardCur, cardPrev, cardCalls, zodVars, templateVars, hookVars, listVars, panelVars>>

CallGetMaxItems ==
    /\ cardRes.maxItems = Unset
    /\ cardRes' = [cardRes EXCEPT !.maxItems = getMaxItems(cardIn)]
    /\ UNCHANGED <<cardIn, cardCur, cardPrev, cardCalls, zodVars, templateVars, hookVars, listVars, panelVars>>

CallAllowsMultiple ==
    /\ cardRes.allowsMultiple = Unset
    /\ cardRes' = [cardRes EXCEPT !.allowsMultiple = allowsMultiple(cardIn)]
    /\ UNCHANGED <<cardIn, cardCur, cardPrev, cardCalls, zodVars, templateVars, hookVars, listVars, panelVars>>

NextCard ==
    \/ CallNormalizeCardinality
    \/ CallIsRequired
    \/ CallGetMinItems
    \/ CallGetMaxItems
    \/ CallAllowsMultiple

SpecCard == InitCard /\ [][NextCard]_vars

IsBracketForm(s) == StartsWith(s, <<"[">>) /\ EndsWith(s, <<"]">>)

\* C9: normalizeCardinality maps the five aliases to their bracket forms,
\* returns bracket-form input unchanged, and is idempotent: applying it to its
\* own result gives that result again, for every input string.
C9_NormalizeIdempotent ==
    /\ (cardCalls = 1 /\ cardIn.s \in DOMAIN mappingOwn)
           => cardCur = JStr(mappingOwn[cardIn.s])
    /\ (cardCalls = 1 /\ IsBracketForm(cardIn.s)) => cardCur = cardIn
    /\ cardCalls >= 2 => cardCur = cardPrev

\* C10: isRequired(c) is true exactly when getMinItems(c) is at least 1,
\* for every cardinality string c.
C10_RequiredIffMinAtLeastOne ==
    (cardRes.isRequired # Unset /\ cardRes.minItems # Unset)
        => (cardRes.isRequired.b <=> cardRes.minItems.whole >= 1)

C10_Witness ==
    /\ cardIn = JStr(<<" ">> \o OneToMany)
    /\ cardRes.isRequired = JBool(TRUE)
    /\ cardRes.minItems = JInt(1)

\* Observations on the results of the helpers for the input cardIn.
BoundsOf(cardinality) ==
    <<JInt(getMinItems(JStr(cardinality))), getMaxItems(JStr(cardinality))>>
ResolvedBounds == <<cardRes.minItems, cardRes.maxItems>>

\* C11: the accepted encodings resolve to these bounds: '[0..1]' and
\* ZeroToOne to (0, 1); '[0..*]' and ZeroToMany to (0, unbounded); '[1..*]'
\* and OneToMany to (1, unbounded); '[1]' and One to (1, 1); and an alias
\* resolves to the same bounds as its bracket form.
C11_AcceptedEncodingBounds ==
    (cardRes.minItems # Unset /\ cardRes.maxItems # Unset) =>
        LET c == cardIn.s
        IN  /\ c \in {BR01, ZeroToOne} => ResolvedBounds = <<JInt(0), JInt(1)>>
            /\ c \in {BR0N, ZeroToMany} => ResolvedBounds = <<JInt(0), JUndefined>>
            /\ c \in {BR1N, OneToMany} => ResolvedBounds = <<JInt(1), JUndefined>>
            /\ c \in {BR1, One} => ResolvedBounds = <<JInt(1), JInt(1)>>
            /\ c \in DOMAIN mappingOwn => ResolvedBounds = BoundsOf(mappingOwn[c])

C11_Witness ==
    /\ cardIn = JStr(One)
    /\ ResolvedBounds = <<JInt(1), JInt(1)>>

\* '[m]' or '[m..n]' with decimal m and n: the pair <<m, n>> (n = m for '[m]').
IsNumericBracket(s) ==
    /\ IsBracketForm(s) /\ Len(s) >= 3
    /\ LET inner == SubSeq(s, 2, Len(s) - 1)
       IN  \/ AllDigits(inner)
           \/ \E i \in 2..(Len(inner) - 2) :
                 /\ AllDigits(SubSeq(inner, 1, i - 1))
                 /\ SubSeq(inner, i, i + 1) = <<".", ".">>
                 /\ AllDigits(SubSeq(inner, i + 2, Len(inner)))
NumericBracketBounds(s) ==
    LET inner == SubSeq(s, 2, Len(s) - 1)
    IN  IF AllDigits(inner) THEN <<DigitsValue(inner), DigitsValue(inner)>>
        ELSE LET i == CHOOSE i \in 2..(Len(inner) - 2) :
                        SubSeq(inner, i, i + 1) = <<".", ".">>
             IN  <<DigitsValue(SubSeq(inner, 1, i - 1)),
                   DigitsValue(SubSeq(inner, i + 2, Len(inner)))>>
\* the bracket form the claim speaks of: the input itself, or the bracket
\* form of the alias it names
BracketFormOf(s) == IF s \in DOMAIN mappingOwn THEN mappingOwn[s] ELSE s

\* C12: for every bracket-form cardinality with numeric bounds, '[m]' or
\* '[m..n]' (also '[0]' reached through the alias Zero), getMinItems returns
\* m and getMaxItems returns the finite upper bound, never unbounded.
C12_NumericBracketBounds ==
    (cardRes.minItems # Unset /\ cardRes.maxItems # Unset
        /\ IsNumericBracket(BracketFormOf(cardIn.s)))
        => LET b == NumericBracketBounds(BracketFormOf(cardIn.s))
           IN  ResolvedBounds = <<JInt(b[1]), JInt(b[2])>>

\* a string that is no alias, no bracket form and no range or number the
\* helper wraps in brackets
IsUnrecognized(s) ==
    LET trimmed == Trim(s)
    IN  /\ trimmed \notin DOMAIN mappingOwn
        /\ ~IsBracketForm(trimmed)
        /\ ~Includes(trimmed, <<".", ".">>)
        /\ ~DigitsRegexTest(trimmed)

\* C13: an unrecognized or malformed cardinality string (the empty string
\* included) never raises an error: normalizeCardinality returns it trimmed,
\* and getMinItems, getMaxItems and isRequired treat it as (0, unbounded) and
\* not required.
C13_UnrecognizedIsLenient ==
    IsUnrecognized(cardIn.s) =>
        /\ cardCalls = 1 => cardCur = JStr(Trim(cardIn.s))
        /\ cardRes.minItems # Unset => cardRes.minItems = JInt(0)
        /\ cardRes.maxItems # Unset => cardRes.maxItems = JUndefined
        /\ cardRes.isRequired # Unset => cardRes.isRequired = JBool(FALSE)
        /\ cardRes.allowsMultiple # TypeError

(***************************************************************************)
(* SpecZod: one element, its form value, and the resolver's verdict        *)
(***************************************************************************)
MaxValueLen == 2     \* length of the exhaustively enumerated value strings
MaxZodItems == 2     \* items of a list handed to the resolver

ValueAlphabet == {"4", "2", ".", "-", " ", "a"}

\* declared types that separate the branches of the classification: "Integer"
\* without "int", "Int" without either, and strings holding two keywords
XsNonNegativeInteger == <<"x", "s", ":", "n", "o", "n", "N", "e", "g", "a", "t", "i", "v", "e", "I", "n", "t", "e", "g", "e", "r">>
XsUnsignedInt == <<"x", "s", ":", "u", "n", "s", "i", "g", "n", "e", "d", "I", "n", "t">>
IntBool == <<"i", "n", "t", "b", "o", "o", "l">>
FloatDate == <<"f", "l", "o", "a", "t", "d", "a", "t", "e">>
BoolDate == <<"b", "o", "o", "l", "d", "a", "t", "e">>

ValueTypes ==
    { <<"x", "s", ":", "s", "t", "r", "i", "n", "g">>, <<"x", "s", ":", "i", "n", "t">>, <<"x", "s", ":", "i", "n", "t", "e", "g", "e", "r">>, <<"x", "s", ":", "d", "o", "u", "b", "l", "e">>, <<"x", "s", ":", "d", "e", "c", "i", "m", "a", "l">>,
      <<"x", "s", ":", "f", "l", "o", "a", "t">>, <<"x", "s", ":", "b", "o", "o", "l", "e", "a", "n">>, <<"x", "s", ":", "d", "a", "t", "e">>, <<"x", "s", ":", "d", "a", "t", "e", "T", "i", "m", "e">>, <<"x", "s", ":", "l", "o", "n", "g">>,
      XsNonNegativeInteger, XsUnsignedInt, IntBool, FloatDate, BoolDate, <<>> }

ElementCardinalities ==
    { BR1, BR01, BR1N, BR0N, One, ZeroToOne, OneToMany, ZeroToMany }

\* The common fields of a UIElementSchema.
Element(idShort, modelType, cardinality) ==
    [idShort |-> idShort, modelType |-> modelType, semanticId |-> JText("sem:" \o idShort),
     qualifiers |-> <<"qualifier:" \o idShort>>, cardinality |-> cardinality]

PropertyElements ==
    {Element("Name", "Property", c) : c \in ElementCardinalities}
        \cup {Element("Name", "Property", c) @@ [valueType |-> JStr(t)] :
                c \in ElementCardinalities, t \in ValueTypes}

TextItem(idShort) ==
    Element(idShort, "Property", BR01)
        @@ [valueType |-> JStr(XsString), value |-> JStr(<<"a", idShort>>)]

\* The itemTemplate of a list carries no value of its own.
TemplateItem(idShort) ==
    Element(idShort, "Property", BR01) @@ [valueType |-> JStr(XsString)]

SeqsUpTo(S, n) == UNION {[1..m -> S] : m \in 0..n}

ListElements ==
    {Element("Markings", "SubmodelElementList", c)
        @@ [itemTemplate |-> TemplateItem("Marking"),
            items |-> [i \in 1..n |-> TextItem(<<"A", "B", "C", "D">>[i])]] :
        c \in ElementCardinalities, n \in 0..MaxZodItems}

\* Elements of a type the editor does not edit, and one tag it does not know.
UnsupportedTypes ==
    {"Blob", "Operation", "Capability", "BasicEventElement", "FutureElement"}
UnsupportedElements ==
    {Element("Extra", t, c) : t \in UnsupportedTypes, c \in {BR1, BR01}}

\* A collection of one Property and one unsupported sibling, in either order.
SiblingProperties ==
    {Element("Name", "Property", BR1) @@ [valueType |-> JStr(XsString)],
     Element("Name", "Property", BR01) @@ [valueType |-> JStr(<<"x", "s", ":", "i", "n", "t">>)]}
CollectionOf(children) ==
    Element("Group", "SubmodelElementCollection", BR1) @@ [elements |-> children]
SiblingCollections ==
    {CollectionOf(<<p, u>>) : p \in SiblingProperties, u \in UnsupportedElements}
        \cup {CollectionOf(<<u, p>>) : p \in SiblingProperties, u \in UnsupportedElements}

\* Nested schema trees: collections in collections, an Entity with
\* statements, a list whose items share one idShort, and empty containers.
Leaf(idShort) == Element(idShort, "Property", BR01) @@ [valueType |-> JStr(XsString)]
EntityOf(idShort, statements) ==
    Element(idShort, "Entity", BR01)
        @@ [globalAssetId |-> JStr(<<"a">>), statements |-> statements]
ListOf(idShort, items) ==
    Element(idShort, "SubmodelElementList", BR0N)
        @@ [itemTemplate |-> JNull, items |-> items]
GeoCollection ==
    Element("Geo", "SubmodelElementCollection", BR01)
        @@ [elements |-> <<Leaf("Lat"), Leaf("Lon")>>]
SchemaTrees ==
    { CollectionOf(<<Leaf("Street"), GeoCollection, Element("Extra", "Blob", BR01)>>),
      CollectionOf(<<>>),
      Element("Group", "SubmodelElementCollection", BR1),
      EntityOf("Asset", <<Leaf("Serial"), GeoCollection>>),
      Element("Asset", "Entity", BR01),
      ListOf("Phones", <<GeoCollection, GeoCollection, Leaf("Geo")>>),
      CollectionOf(<<ListOf("Phones", <<Leaf("Phone"), Leaf("Phone")>>),
                     EntityOf("Asset", <<ListOf("Parts", <<GeoCollection>>)>>),
                     Leaf("Name")>>) }

ZodElements ==
    PropertyElements \cup ListElements \cup UnsupportedElements
        \cup SiblingCollections \cup SchemaTrees

\* What the inputs of PropertyField put into the form: strings (text inputs),
\* numbers or NaN (parseFloat of a number input), booleans (checkbox), and
\* null / undefined / a missing key from reset or setValue.
PropertyValues ==
    {JStr(s) : s \in StringsUpTo(ValueAlphabet, MaxValueLen)}
        \cup {JStr(<<"4", "2">>), JStr(<<"a", "b", "c">>), JStr(<<"4", ".", "5", "0">>), JStr(<<"2", "0", "2", "4", "-", "0", "1", "-", "3", "1">>)}
        \cup {JInt(42), JNum(FALSE, 4, <<"5">>), JNaN, JBool(TRUE), JBool(FALSE),
              JNull, JUndefined}

PropertyInputs ==
    {JObj(<<<<"value", v>>>>) : v \in PropertyValues} \cup {JObj(<<>>)}

ListInputs ==
    {JObj(<<<<"items", JArr(items)>>>>) :
        items \in SeqsUpTo({JObj(<<<<"value", JStr(<<>>)>>>>),
                            JObj(<<<<"value", JStr(<<"a">>)>>>>)}, MaxZodItems)}

\* Any form value at the place of an element the editor renders no input for.
AnyValues ==
    {JUndefined, JNull, JStr(<<>>), JInt(42), JBool(FALSE), JArr(<<>>), JObj(<<>>),
     JObj(<<<<"value", JStr(<<"a">>)>>>>), JObj(<<<<"value", JNull>>>>)}

SiblingInputs ==
    {JObj(<<<<"elements", JObj(<<<<"Name", JObj(<<<<"value", v>>>>)>>, <<"Extra", x>>>>)>>>>) :
        v \in {JStr(<<>>), JStr(<<"a">>), JStr(<<"4", "2">>), JUndefined},
        x \in AnyValues}
        \cup {JObj(<<<<"elements", JObj(<<<<"Name", JObj(<<<<"value", v>>>>)>>>>)>>>>) :
                v \in {JStr(<<>>), JStr(<<"a">>)}}

InputsFor(element) ==
    CASE element.modelType = "Property" -> PropertyInputs
      [] element.modelType = "SubmodelElementList" -> ListInputs
      [] element.modelType = "SubmodelElementCollection" -> SiblingInputs
      [] OTHER -> AnyValues

InitZod ==
    /\ zodElement \in ZodElements
    /\ zodInput = Unset
    /\ zodResult = Unset
    /\ zodOp = "none"
    /\ rendered = Unset
    /\ CardIdle
    /\ FormIdle
    /\ TemplateListIdle

\* form.reset(generateDefaultValues(schema)), for the one element
ZodFormReset ==
    /\ zodInput' = GetKey(GetKey(generateDefaultValues([elements |-> <<zodElement>>]),
                              "elements"), zodElement.idShort)
    /\ zodResult' = Unset
    /\ zodOp' = "reset"
    /\ UNCHANGED <<zodElement, rendered, cardVars, hookVars, listVars, panelVars, templateVars>>

\* field.onChange / append / remove: the user edits the element's form value
ZodSetFormValue ==
    /\ zodInput # Unset
    /\ \E v \in InputsFor(zodElement) : zodInput' = v
    /\ zodResult' = Unset
    /\ zodOp' = "edit"
    /\ UNCHANGED <<zodElement, rendered, cardVars, hookVars, listVars, panelVars, templateVars>>

\* zodResolver(zodSchema): safeParse of the form value
ZodResolve ==
    /\ zodInput # Unset
    /\ zodResult = Unset
    /\ zodResult' = ZodSafeParse(generateZodSchema(zodElement), zodInput)
    /\ UNCHANGED <<zodElement, zodInput, zodOp, rendered, cardVars, hookVars, listVars, panelVars, templateVars>>

\* AASRenderer renders the element
ZodRender ==
    /\ rendered = Unset
    /\ rendered' = AASRenderer(zodElement)
    /\ UNCHANGED <<zodElement, zodInput, zodResult, zodOp, cardVars, hookVars, listVars, panelVars, templateVars>>

NextZod ==
    \/ ZodFormReset
    \/ ZodSetFormValue
    \/ ZodResolve
    \/ ZodRender

SpecZod == InitZod /\ [][NextZod]_vars

IsProperty == zodElement # Unset /\ zodElement.modelType = "Property"
IsList == zodElement # Unset /\ zodElement.modelType = "SubmodelElementList"
Resolved == zodInput # Unset /\ zodResult # Unset
ResolvedMin == getMinItems(JStr(zodElement.cardinality))
InputValue == GetKey(zodInput, "value")
ParsedValue == GetKey(zodResult.value, "value")
HasIssue(code, path) ==
    \E i \in 1..Len(zodResult.issues) : zodResult.issues[i] = Issue(code, path)
DeclaredType == OrElse(Field(zodElement, "valueType"), JStr(XsString)).s
Letters == {"a", "b", "c"}

\* C5: a required Property (resolved min >= 1) with an empty or absent form
\* value (empty string, null, undefined) is rejected by the validation schema,
\* whatever the value kind.
C5_RequiredRejectsEmpty ==
    (IsProperty /\ Resolved /\ ResolvedMin >= 1
        /\ InputValue \in {JStr(<<>>), JNull, JUndefined})
        => ~zodResult.ok

\* C6: an optional Property whose form value is the empty string is accepted
\* without error and is not turned into a concrete typed value such as 0,
\* whatever the value kind.
C6_OptionalEmptyIsAbsent ==
    (IsProperty /\ Resolved /\ ResolvedMin = 0 /\ InputValue = JStr(<<>>))
        => /\ zodResult.ok
           /\ ParsedValue \in {JStr(<<>>), JNull, JUndefined}

C8_RequiredListRejectsEmpty ==
    (IsList /\ Resolved /\ ResolvedMin = 1
        /\ GetKey(zodInput, "items") = JArr(<<>>))
        => (~zodResult.ok /\ HasIssue("too_small", <<"items">>))

\* The validator of each value kind, and the result of validating the form
\* value of the Property when its declared type is of that kind.
KindSchema(kind) ==
    CASE kind = "integer" -> ZNumber(TRUE, TRUE)
      [] kind = "decimal" -> ZNumber(TRUE, FALSE)
      [] kind = "boolean" -> ZBoolean
      [] kind = "date" -> ZString
      [] kind = "text" -> ZString
ValidatedAs(kind) ==
    LET z == KindSchema(kind)
        wrapped == IF isRequired(JStr(zodElement.cardinality))
                   THEN z ELSE ZNullable(ZOptional(z))
    IN  ZodSafeParse(ZObject(<<"value">>, <<wrapped>>), zodInput)
KindAfterInteger(t) ==
    IF Includes(t, <<"f", "l", "o", "a", "t">>) \/ Includes(t, <<"d", "o", "u", "b", "l", "e">>)
        \/ Includes(t, <<"d", "e", "c", "i", "m", "a", "l">>) THEN "decimal"
    ELSE IF Includes(t, <<"b", "o", "o", "l">>) THEN "boolean"
    ELSE IF Includes(t, <<"d", "a", "t", "e">>) THEN "date"
    ELSE "text"
DeclaredOrMissing ==
    IF "valueType" \in DOMAIN zodElement THEN zodElement.valueType.s ELSE <<>>

\* C14 as claimed: the Property validator classifies the declared valueType
\* by substring with the precedence: "int" gives integer; otherwise "float",
\* "double" or "decimal" gives decimal; otherwise "bool" gives boolean;
\* otherwise "date" gives date; otherwise text; a missing valueType is text.
C14_ValueKindBySubstring ==
    (IsProperty /\ Resolved) =>
        LET t == DeclaredOrMissing
            kind == IF Includes(t, <<"i", "n", "t">>) THEN "integer"
                    ELSE KindAfterInteger(t)
        IN  zodResult = ValidatedAs(kind)

\* C14 as amended: as claimed, except that integer is given by "int" or by
\* "Integer" (so 'xs:nonNegativeInteger' is integer, not text).
C14_ValueKindBySubstringOrInteger ==
    (IsProperty /\ Resolved) =>
        LET t == DeclaredOrMissing
            kind == IF Includes(t, <<"i", "n", "t">>)
                        \/ Includes(t, <<"I", "n", "t", "e", "g", "e", "r">>)
                    THEN "integer"
                    ELSE KindAfterInteger(t)
        IN  zodResult = ValidatedAs(kind)

C14_Witness ==
    /\ IsProperty /\ Resolved
    /\ DeclaredOrMissing = IntBool
    /\ zodElement.cardinality = BR01
    /\ InputValue = JStr(<<"4", "2">>)
    /\ zodResult.ok /\ ParsedValue = JInt(42)

IsUnsupported == zodElement # Unset /\ zodElement.modelType \in UnsupportedTypes
HasUnsupportedSibling ==
    /\ zodElement # Unset
    /\ zodElement.modelType = "SubmodelElementCollection"
    /\ \E i \in 1..Len(ChildrenOf(zodElement, "elements")) :
          zodElement.elements[i].modelType \in UnsupportedTypes
\* the collection without its unsupported children
SupportedOnly ==
    [zodElement EXCEPT !.elements =
        SelectSeq(zodElement.elements, LAMBDA e : e.modelType \notin UnsupportedTypes)]
IsMarkerOf(r, element) ==
    /\ r.modelType = element.modelType
    /\ ~r.element.editable
    /\ r.element.component = "span"
    /\ element.modelType # "Blob" =>
          \E i \in 1..Len(r.element.text) : r.element.text[i] = element.modelType

\* C15: an element of an unsupported or read-only type (Blob, Operation,
\* Capability, BasicEventElement, an unknown tag) is rendered as a
\* non-editable marker carrying its modelType, and its validator accepts
\* any form value; in a collection, whether the form validates depends only
\* on the other elements, and the other elements stay editable.
C15_UnsupportedIsInertMarker ==
    /\ (IsUnsupported /\ rendered # Unset) => IsMarkerOf(rendered, zodElement)
    /\ (IsUnsupported /\ Resolved) => (zodResult.ok /\ zodResult.value = zodInput)
    /\ (HasUnsupportedSibling /\ Resolved) =>
          /\ zodResult.ok = ZodSafeParse(generateZodSchema(SupportedOnly), zodInput).ok
          /\ zodResult.issues = ZodSafeParse(generateZodSchema(SupportedOnly), zodInput).issues
    /\ (HasUnsupportedSibling /\ rendered # Unset) =>
          /\ rendered.element.editable
          /\ \A i \in 1..Len(zodElement.elements) :
                LET child == zodElement.elements[i]
                    r == rendered.element.children[i]
                IN  IF child.modelType \in UnsupportedTypes
                    THEN IsMarkerOf(r, child)
                    ELSE r = AASRenderer(child) /\ r.element.editable

C15_Witness ==
    /\ HasUnsupportedSibling /\ Resolved /\ rendered # Unset
    /\ zodElement.elements[1].modelType = "FutureElement"
    /\ zodElement.elements[2].cardinality = BR1
    /\ GetKey(GetKey(zodInput, "elements"), "Extra") = JInt(42)
    /\ GetKey(GetKey(GetKey(zodInput, "elements"), "Name"), "value") = JStr(<<"a">>)
    /\ zodResult.ok

\* value holds exactly one default per schema element below `element`:
\* per child of a collection under elements, per statement of an Entity
\* under statements, per item of a list under items, in item order.
RECURSIVE Covers(_, _)
Covers(element, value) ==
    LET KeyedExactly(children, obj) ==
            /\ obj.k = "object"
            /\ Len(obj.props) = Len(children)
            /\ \A i \in 1..Len(children) :
                  /\ Cardinality({j \in 1..Len(obj.props) :
                                    obj.props[j][1] = children[i].idShort}) = 1
                  /\ Covers(children[i], GetKey(obj, children[i].idShort))
            /\ \A j \in 1..Len(obj.props) :
                  \E i \in 1..Len(children) : children[i].idShort = obj.props[j][1]
    IN  /\ value.k = "object"
        /\ CASE element.modelType = "SubmodelElementCollection" ->
                   KeyedExactly(ChildrenOf(element, "elements"), GetKey(value, "elements"))
              [] element.modelType = "Entity" ->
                   KeyedExactly(ChildrenOf(element, "statements"), GetKey(value, "statements"))
              [] element.modelType = "SubmodelElementList" ->
                   LET items == ChildrenOf(element, "items")
                       arr == GetKey(value, "items")
                   IN  /\ arr.k = "array"
                       /\ Len(arr.items) = Len(items)
                       /\ \A i \in 1..Len(items) : Covers(items[i], arr.items[i])
              [] OTHER -> value.props # <<>>

\* C16: generateDefaultValues(schema) is total over the schema tree: exactly
\* one entry per top-level element keyed by idShort, and recursively one per
\* child of every SubmodelElementCollection, one per statement of every
\* Entity and one per existing item of every SubmodelElementList in item
\* order; no element lacks a default and no entry lacks an element.
C16_DefaultsCoverSchemaTree ==
    (zodOp = "reset") =>
        /\ Covers(zodElement, zodInput)
        /\ LET top == generateDefaultValues([elements |-> <<zodElement>>])
           IN  /\ GetKey(top, "elements").props = <<<<zodElement.idShort, zodInput>>>>
        /\ zodElement.modelType = "SubmodelElementCollection" =>
              generateDefaultValues([elements |-> ChildrenOf(zodElement, "elements")])
                  = JObj(<<<<"elements", GetKey(zodInput, "elements")>>>>)

C16_Witness ==
    /\ zodOp = "reset"
    /\ zodElement.modelType = "SubmodelElementCollection"
    /\ Len(ChildrenOf(zodElement, "elements")) = 3
    /\ zodElement.elements[2].modelType = "Entity"
    /\ LET parts == GetKey(GetKey(GetKey(GetKey(zodInput, "elements"), "Asset"),
                                  "statements"), "Parts")
       IN  /\ Len(GetKey(parts, "items").items) = 1
           /\ HasKey(GetKey(GetKey(parts, "items").items[1], "elements"), "Lon")

(***************************************************************************)
(* ListField.tsx: createDefaultItem, getItemSchema and the item handlers   *)
(***************************************************************************)
MaxListLen == 3      \* items a list may hold (caps Add Item on unbounded lists)
MaxInitItems == 2    \* items a list schema arrives with
MaxInFlight == 2     \* requests awaiting a response at one time

RECURSIVE createDefaultItem(_)
createDefaultItem(template) ==
    LET Empty == JStr(<<>>)
    IN  IF Nullish(template) THEN JObj(<<<<"value", Empty>>>>)
        ELSE CASE template.modelType = "Property" ->
                    JObj(<<<<"value", Coalesce(Field(template, "value"), Empty)>>>>)
               [] template.modelType = "MultiLanguageProperty" ->
                    JObj(<<<<"value", JObj(<<>>)>>>>)
               [] template.modelType = "SubmodelElementCollection" ->
                    LET children == ChildrenOf(template, "elements")
                    IN  JObj(<<<<"elements",
                                JObj(AssignAll(<<>>, [i \in 1..Len(children) |->
                                        <<children[i].idShort,
                                          createDefaultItem(children[i])>>]))>>>>)
               [] template.modelType = "Range" ->
                    JObj(<<<<"min", Empty>>, <<"max", Empty>>>>)
               [] template.modelType = "File" ->
                    JObj(<<<<"value", Empty>>, <<"contentType", Empty>>>>)
               [] template.modelType = "ReferenceElement" ->
                    JObj(<<<<"value", Empty>>>>)
               [] OTHER -> JObj(<<<<"value", Empty>>>>)

\* The `schema` prop of ListField: the SubmodelElementList of the loaded schema.
ListSchema == schema.elements[2]
ListItems == ChildrenOf(ListSchema, "items")
itemTemplate == Field(ListSchema, "itemTemplate")
minItems == getMinItems(JStr(ListSchema.cardinality))
maxItems == getMaxItems(JStr(ListSchema.cardinality))
canRemove == Len(fields) > minItems
\* a variant of canAdd that never disables Add Item
canAddAlways == TRUE
\* canAdd: maxItems === undefined || fields.length < maxItems
canAdd == IF maxItems.k = "undefined" THEN TRUE ELSE Len(fields) < maxItems.whole

\* useFieldArray over `${path}.items`: one field per form item, each with a
\* key (field.id) of its own. Keys 1..n belong to the n items of schema.items.
FieldsOf(list) ==
    LET items == GetKey(generateElementDefaults(list), "items").items
    IN  [i \in 1..Len(items) |-> [id |-> i, value |-> items[i]]]

\* the key useFieldArray gives to an appended item: one never used for an
\* item of schema.items and not in use
FreshId ==
    CHOOSE i \in (Len(ListItems) + 1)..(Len(ListItems) + Len(fields) + 1) :
        /\ \A j \in 1..Len(fields) : fields[j].id # i
        /\ \A h \in (Len(ListItems) + 1)..(i - 1) : \E j \in 1..Len(fields) : fields[j].id = h

\* useFieldArray: append / remove(index) / move(from, to), index from 0
FieldsAppend(fs, item) == Append(fs, item)

FieldsRemove(fs, index) ==
    [i \in 1..(Len(fs) - 1) |-> IF i <= index THEN fs[i] ELSE fs[i + 1]]

FieldsInsert(fs, index, item) ==
    [i \in 1..(Len(fs) + 1) |->
        IF i <= index THEN fs[i] ELSE IF i = index + 1 THEN item ELSE fs[i - 1]]

FieldsMove(fs, from, to) == FieldsInsert(FieldsRemove(fs, from), to, fs[from + 1])

\* handleAddItem
handleAddItem(fs) ==
    LET newItem == createDefaultItem(IF Nullish(itemTemplate) THEN JNull ELSE itemTemplate)
    IN  FieldsAppend(fs, [id |-> FreshId, value |-> newItem])

\* a variant of handleRemoveItem that removes the first item
handleRemoveItemFirst(fs, index) ==
    IF canRemove \/ Len(fs) > minItems THEN FieldsRemove(fs, 0) ELSE fs

\* handleRemoveItem(index)
handleRemoveItem(fs, index) ==
    IF canRemove \/ Len(fs) > minItems THEN FieldsRemove(fs, index) ELSE fs

\* a variant of handleMoveUp that moves the item to the front
handleMoveUpToFront(fs, index) ==
    IF index > 0 THEN FieldsMove(fs, index, 0) ELSE fs

\* handleMoveUp(index)
handleMoveUp(fs, index) ==
    IF index > 0 THEN FieldsMove(fs, index, index - 1) ELSE fs

\* handleMoveDown(index)
handleMoveDown(fs, index) ==
    IF index < Len(fs) - 1 THEN FieldsMove(fs, index, index + 1) ELSE fs

\* getItemSchema(index): the schema an item at `index` is rendered with
getItemSchema(index) ==
    IF index + 1 <= Len(ListItems) THEN ListItems[index + 1]
    ELSE IF ~Nullish(itemTemplate)
    THEN [itemTemplate EXCEPT !.idShort = itemTemplate.idShort \o "_" \o ToString(index)]
    ELSE [idShort |-> "item_" \o ToString(index), modelType |-> "Property",
          semanticId |-> JNull, qualifiers |-> <<>>, cardinality |-> BR1,
          valueType |-> JStr(XsString)]

(***************************************************************************)
(* useSubmodelForm.ts and App.tsx                                          *)
(***************************************************************************)
TemplateNames == {"Nameplate", "ContactInformation"}

NameProperty == Element("Name", "Property", BR1) @@ [valueType |-> JStr(XsString)]

MarkingsList(cardinality, n, template, orderRelevant) ==
    Element("Markings", "SubmodelElementList", cardinality)
        @@ [itemTemplate |-> template,
            items |-> [i \in 1..n |-> TextItem(<<"A", "B", "C", "D">>[i])]]
        @@ (IF orderRelevant THEN <<>> ELSE [orderRelevant |-> JBool(FALSE)])

SubmodelSchema(name, list) ==
    [templateName |-> JText(name), idShort |-> name,
     semanticId |-> JText("sem:" \o name), elements |-> <<NameProperty, list>>]

\* getTemplateSchema(name): what the backend returns for a template
SchemaOf(name) ==
    IF name = "Nameplate"
    THEN SubmodelSchema(name, MarkingsList(BR0N, 2, TemplateItem("Marking"), TRUE))
    ELSE SubmodelSchema(name, MarkingsList(ZeroToOne, 0, TemplateItem("Phone"), TRUE))

\* generateDefaultValues(schema), split over the two form variables
DefaultNameValue(sch) == GetKey(generateElementDefaults(sch.elements[1]), "value")
DefaultFields(sch) == FieldsOf(sch.elements[2])

LoadRequest(name) == [kind |-> "getTemplateSchema", name |-> name]
ValidateRequest(name) == [kind |-> "validateFormData", name |-> name]
One_(r) == SetToBag({r})

\* App.tsx: the form is rendered / the export sidebar is rendered
FormVisible ==
    selectedTemplate # JNull /\ ~loading /\ error = JNull /\ schema # JNull
PanelVisible == selectedTemplate # JNull /\ schema # JNull

Init ==
    /\ schema = JNull
    /\ fields = <<>>
    /\ nameValue = Unset
    /\ selectedTemplate = JNull
    /\ loading = FALSE
    /\ error = JNull
    /\ validating = FALSE
    /\ validationResult = JNull
    /\ inflight = EmptyBag
    /\ lastOp = "none"
    /\ snapshot = <<>>
    /\ PanelIdle
    /\ TemplateListIdle
    /\ CardIdle
    /\ ZodIdle

\* App.handleTemplateSelect: setSelectedTemplate, loadSchema(name); when the
\* name changed, the [templateName] effect of useSubmodelForm calls
\* loadSchema(name) once more.
HandleTemplateSelect(name) ==
    LET calls == IF selectedTemplate = JText(name) THEN 1 ELSE 2
    IN  /\ BagCardinality(inflight) + calls <= MaxInFlight
        /\ selectedTemplate' = JText(name)
        /\ loading' = TRUE
        /\ error' = JNull
        /\ inflight' = inflight (+) [r \in {LoadRequest(name)} |-> calls]
        /\ lastOp' = "load"
        /\ snapshot' = <<>>
        /\ UNCHANGED <<schema, fields, nameValue, validating, validationResult,
                       cardVars, zodVars, templateVars, panelVars>>

\* the Retry button of the error view: loadSchema(selectedTemplate.name)
RetryLoad ==
    /\ selectedTemplate # JNull /\ ~loading /\ error # JNull
    /\ BagCardinality(inflight) < MaxInFlight
    /\ loading' = TRUE
    /\ error' = JNull
    /\ inflight' = inflight (+) One_(LoadRequest(selectedTemplate.text))
    /\ lastOp' = "load"
    /\ snapshot' = <<>>
    /\ UNCHANGED <<schema, fields, nameValue, selectedTemplate, validating,
                   validationResult, cardVars, zodVars, templateVars, panelVars>>

\* loadSchema: the request resolves; setSchema, then the [schema] effect
\* resets the form to the new defaults.
LoadSchemaResolve(r) ==
    /\ BagIn(r, inflight) /\ r.kind = "getTemplateSchema"
    /\ inflight' = inflight (-) One_(r)
    /\ schema' = SchemaOf(r.name)
    /\ loading' = FALSE
    /\ fields' = DefaultFields(SchemaOf(r.name))
    /\ nameValue' = DefaultNameValue(SchemaOf(r.name))
    /\ lastOp' = "load"
    /\ snapshot' = <<>>
    /\ UNCHANGED <<selectedTemplate, error, validating, validationResult,
                   cardVars, zodVars, templateVars, panelVars>>

\* loadSchema: the request rejects
LoadSchemaReject(r) ==
    /\ BagIn(r, inflight) /\ r.kind = "getTemplateSchema"
    /\ inflight' = inflight (-) One_(r)
    /\ error' = JText("Failed to load schema")
    /\ loading' = FALSE
    /\ lastOp' = "load"
    /\ snapshot' = <<>>
    /\ UNCHANGED <<schema, fields, nameValue, selectedTemplate, validating,
                   validationResult, cardVars, zodVars, templateVars, panelVars>>

\* PropertyField: field.onChange(value) on the top-level Property
SetFieldValue(v) ==
    /\ FormVisible
    /\ nameValue # v
    /\ nameValue' = v
    /\ lastOp' = "setValue"
    /\ snapshot' = <<>>
    /\ UNCHANGED <<schema, fields, selectedTemplate, loading, error, validating,
                   validationResult, inflight, cardVars, zodVars, templateVars, panelVars>>

\* ListField: the Add Item button (disabled unless canAdd)
HandleAddItem ==
    /\ FormVisible
    /\ canAdd
    /\ Len(fields) < MaxListLen
    /\ fields' = handleAddItem(fields)
    /\ lastOp' = "add"
    /\ snapshot' = fields
    /\ UNCHANGED <<hookVars, cardVars, zodVars, templateVars, panelVars>>

\* ListField: handleRemoveItem(index) for a rendered item
HandleRemoveItem(index) ==
    /\ FormVisible
    /\ fields' = handleRemoveItem(fields, index)
    /\ IF lastOp = "add" /\ index = Len(fields) - 1
       THEN lastOp' = "addRemove" /\ snapshot' = snapshot
       ELSE lastOp' = "remove" /\ snapshot' = <<>>
    /\ UNCHANGED <<hookVars, cardVars, zodVars, templateVars, panelVars>>

\* ListField: handleMoveUp(index); the buttons exist unless orderRelevant is false
HandleMoveUp(index) ==
    /\ FormVisible
    /\ Field(ListSchema, "orderRelevant") # JBool(FALSE)
    /\ fields' = handleMoveUp(fields, index)
    /\ lastOp' = "moveUp"
    /\ snapshot' = <<>>
    /\ UNCHANGED <<hookVars, cardVars, zodVars, templateVars, panelVars>>

\* ListField: handleMoveDown(index)
HandleMoveDown(index) ==
    /\ FormVisible
    /\ Field(ListSchema, "orderRelevant") # JBool(FALSE)
    /\ fields' = handleMoveDown(fields, index)
    /\ lastOp' = "moveDown"
    /\ snapshot' = <<>>
    /\ UNCHANGED <<hookVars, cardVars, zodVars, templateVars, panelVars>>

\* validate(): returns false at once without schema or templateName, else
\* setValidating(true) and sends the form data
Validate ==
    /\ PanelVisible
    /\ ~validating
    /\ BagCardinality(inflight) < MaxInFlight
    /\ validating' = TRUE
    /\ inflight' = inflight (+) One_(ValidateRequest(selectedTemplate.text))
    /\ lastOp' = "validate"
    /\ snapshot' = <<>>
    /\ UNCHANGED <<schema, fields, nameValue, selectedTemplate, loading, error,
                   validationResult, cardVars, zodVars, templateVars, panelVars>>

\* validate(): the backend answers; setValidationResult, setValidating(false)
ValidateResolve(r, valid) ==
    /\ BagIn(r, inflight) /\ r.kind = "validateFormData"
    /\ inflight' = inflight (-) One_(r)
    /\ validationResult' = [valid |-> valid]
    /\ validating' = FALSE
    /\ lastOp' = "validate"
    /\ snapshot' = <<>>
    /\ UNCHANGED <<schema, fields, nameValue, selectedTemplate, loading, error,
                   cardVars, zodVars, templateVars, panelVars>>

\* validate(): the request fails; setError, setValidating(false)
ValidateReject(r) ==
    /\ BagIn(r, inflight) /\ r.kind = "validateFormData"
    /\ inflight' = inflight (-) One_(r)
    /\ error' = JText("Validation failed")
    /\ validating' = FALSE
    /\ lastOp' = "validate"
    /\ snapshot' = <<>>
    /\ UNCHANGED <<schema, fields, nameValue, selectedTemplate, loading,
                   validationResult, cardVars, zodVars, templateVars, panelVars>>

\* exportAasx / exportJson / exportPdf: read the form values and hand them
\* to the backend; no state of the hook is written
Export(format) ==
    /\ PanelVisible
    /\ lastOp' = "export"
    /\ snapshot' = <<>>
    /\ UNCHANGED <<fields, hookVars, cardVars, zodVars, templateVars, panelVars>>

\* a variant of resetForm that also drops the schema
ResetFormClearsSchema ==
    /\ PanelVisible
    /\ schema' = JNull
    /\ fields' = <<>>
    /\ nameValue' = Unset
    /\ validationResult' = JNull
    /\ lastOp' = "resetForm"
    /\ snapshot' = <<>>
    /\ UNCHANGED <<selectedTemplate, loading, error, validating, inflight,
                   cardVars, zodVars, templateVars, panelVars>>

\* a variant of resetForm that keeps the validation result
ResetFormKeepsResult ==
    /\ IF schema # JNull
       THEN /\ fields' = DefaultFields(schema)
            /\ nameValue' = DefaultNameValue(schema)
       ELSE UNCHANGED <<fields, nameValue>>
    /\ lastOp' = "resetForm"
    /\ snapshot' = <<>>
    /\ UNCHANGED <<schema, selectedTemplate, loading, error, validating, inflight,
                   validationResult, cardVars, zodVars, templateVars, panelVars>>

\* resetForm() of the hook's return value: if (schema), form.reset(
\* generateDefaultValues(schema)) and setValidationResult(null).  App hands
\* it to the Reset Form button of the export panel.
ResetForm ==
    /\ IF schema # JNull
       THEN /\ fields' = DefaultFields(schema)
            /\ nameValue' = DefaultNameValue(schema)
            /\ validationResult' = JNull
       ELSE UNCHANGED <<fields, nameValue, validationResult>>
    /\ lastOp' = "resetForm"
    /\ snapshot' = <<>>
    /\ UNCHANGED <<schema, selectedTemplate, loading, error, validating, inflight,
                   cardVars, zodVars, templateVars, panelVars>>

NameValues == {JStr(<<>>), JStr(<<"a">>)}
Indexes == 0..(Len(fields) - 1)
Requests == BagToSet(inflight)

ListNext ==
    \/ HandleAddItem
    \/ \E index \in Indexes : HandleRemoveItem(index)
    \/ \E index \in Indexes : HandleMoveUp(index)
    \/ \E index \in Indexes : HandleMoveDown(index)

Next ==
    \/ \E name \in TemplateNames : HandleTemplateSelect(name)
    \/ RetryLoad
    \/ \E r \in Requests : LoadSchemaResolve(r)
    \/ \E r \in Requests : LoadSchemaReject(r)
    \/ \E v \in NameValues : SetFieldValue(v)
    \/ ListNext
    \/ Validate
    \/ \E r \in Requests, valid \in BOOLEAN : ValidateResolve(r, valid)
    \/ \E r \in Requests : ValidateReject(r)
    \/ \E format \in {"Aasx", "Json", "Pdf"} : Export(format)
    \/ ResetForm

Spec == Init /\ [][Next]_vars

(***************************************************************************)
(* SpecList: ListField over one loaded schema, for every list cardinality, *)
(* initial item count, item template and orderRelevant                     *)
(***************************************************************************)
ListCardinalities == {BR0N, BR1N, BR01, BR1, ZeroToMany, OneToMany}

\* Item templates of the types a list can hold: a Property, a nested list,
\* an Entity, a collection holding a list, and no template at all.
ItemTemplates ==
    { TemplateItem("Marking"), JNull,
      ListOf("Marking", <<>>) @@ [itemTemplate |-> Leaf("Part")],
      EntityOf("Marking", <<Leaf("Serial")>>),
      Element("Marking", "SubmodelElementCollection", BR01)
          @@ [elements |-> <<Leaf("Text"), ListOf("Logos", <<>>)>>] }

ListSchemas ==
    {MarkingsList(c, n, t, o) :
        c \in ListCardinalities, n \in 0..MaxInitItems,
        t \in ItemTemplates, o \in BOOLEAN}

InitList ==
    /\ schema \in {SubmodelSchema("Nameplate", l) : l \in ListSchemas}
    /\ fields = DefaultFields(schema)
    /\ nameValue = DefaultNameValue(schema)
    /\ selectedTemplate = JText("Nameplate")
    /\ loading = FALSE
    /\ error = JNull
    /\ validating = FALSE
    /\ validationResult = JNull
    /\ inflight = EmptyBag
    /\ lastOp = "none"
    /\ snapshot = <<>>
    /\ PanelIdle
    /\ TemplateListIdle
    /\ CardIdle
    /\ ZodIdle

SpecList == InitList /\ [][ListNext]_vars

(***************************************************************************)
(* ExportPanel.tsx over a loaded schema.  onValidate, the export functions *)
(* and onVerify are the props of the panel: promises that settle later.    *)
(* App passes the hook's validate as onValidate, which sets validating     *)
(* while it runs, stores the backend's answer in validationResult and      *)
(* turns a failed request into the answer false.                           *)
(***************************************************************************)
MaxPanelCalls == 2   \* calls of the panel's props awaiting their result

Formats == {"aasx", "json", "pdf"}
OnValidateCall(by, format) == [kind |-> "onValidate", by |-> by, format |-> format]
ExportFnCall(format) == [kind |-> "exportFn", format |-> format]
OnVerifyCall == [kind |-> "onVerify"]

\* how a call of onValidate settles: the backend finds the data valid or
\* invalid, the request fails inside validate (caught there: false), or the
\* promise rejects
ValidateOutcomes == {"valid", "invalid", "failed", "rejected"}
PromiseOutcomes == {"resolved", "rejected"}

ExportButtonsDisabled == Truthy(exporting) \/ verifying
ValidateButtonDisabled == validating \/ verifying \/ Truthy(exporting)
VerifyButtonDisabled == validating \/ verifying \/ Truthy(exporting)
\* a variant of the Reset Form button that is never disabled
ResetButtonDisabledNever == FALSE
ResetButtonDisabled == Truthy(exporting) \/ verifying

InitPanel ==
    /\ schema = SchemaOf("Nameplate")
    /\ fields = DefaultFields(schema)
    /\ nameValue = DefaultNameValue(schema)
    /\ selectedTemplate = JText("Nameplate")
    /\ loading = FALSE
    /\ error = JNull
    /\ validating = FALSE
    /\ validationResult = JNull
    /\ inflight = EmptyBag
    /\ lastOp = "none"
    /\ snapshot = <<>>
    /\ PanelIdle
    /\ TemplateListIdle
    /\ CardIdle
    /\ ZodIdle

\* validate() up to its await: setValidating(true) and the request
ValidateStarts(call) ==
    /\ validating' = TRUE
    /\ inflight' = inflight (+) One_(call)

\* an export button: handleExport(format, exportFn) up to `await onValidate()`
ClickExport(format) ==
    /\ PanelVisible
    /\ ~ExportButtonsDisabled
    /\ BagCardinality(inflight) < MaxPanelCalls
    /\ exporting' = JText(format)
    /\ panelError' = JNull
    /\ ValidateStarts(OnValidateCall("export", format))
    /\ lastOp' = "clickExport"
    /\ UNCHANGED <<schema, fields, nameValue, selectedTemplate, loading, error,
                   validationResult, snapshot, verifying, cardVars, zodVars, templateVars>>

\* the Validate button: onClick={onValidate}
ClickValidate ==
    /\ PanelVisible
    /\ ~ValidateButtonDisabled
    /\ BagCardinality(inflight) < MaxPanelCalls
    /\ ValidateStarts(OnValidateCall("button", "none"))
    /\ lastOp' = "clickValidate"
    /\ UNCHANGED <<schema, fields, nameValue, selectedTemplate, loading, error,
                   validationResult, snapshot, panelVars, cardVars, zodVars, templateVars>>

\* the Verify button: handleVerify() up to `await onValidate()`
ClickVerify ==
    /\ PanelVisible
    /\ ~VerifyButtonDisabled
    /\ BagCardinality(inflight) < MaxPanelCalls
    /\ verifying' = TRUE
    /\ panelError' = JNull
    /\ ValidateStarts(OnValidateCall("verify", "none"))
    /\ lastOp' = "clickVerify"
    /\ UNCHANGED <<schema, fields, nameValue, selectedTemplate, loading, error,
                   validationResult, snapshot, exporting, cardVars, zodVars, templateVars>>

\* the Reset Form button, the confirm dialog accepted: onReset(), which is
\* the hook's resetForm
ClickReset ==
    /\ PanelVisible
    /\ ~ResetButtonDisabled
    /\ ResetForm

\* a variant of the test of isValid that lets every answer through
IsValidAlways(outcome) == TRUE
\* `const isValid = await onValidate(); if (!isValid) ...`
IsValid(outcome) == outcome = "valid"

\* validate() after its await: the answer stored or the failure caught, and
\* setValidating(false) in finally
ValidateSettles(outcome) ==
    /\ validating' = FALSE
    /\ validationResult' =
          IF outcome \in {"valid", "invalid"} THEN [valid |-> outcome = "valid"]
          ELSE validationResult
    /\ error' = IF outcome = "failed" THEN JText("Validation failed") ELSE error

\* onValidate() settles, and the handler that awaited it runs on to its next
\* await or to its end
OnValidateSettle(r, outcome) ==
    /\ BagIn(r, inflight) /\ r.kind = "onValidate"
    /\ ValidateSettles(outcome)
    /\ CASE r.by = "button" ->
              /\ inflight' = inflight (-) One_(r)
              /\ lastOp' = "validated"
              /\ UNCHANGED panelVars
         [] r.by = "export" ->
              IF outcome = "rejected"
              THEN /\ inflight' = inflight (-) One_(r)
                   /\ panelError' = JText("Export failed")
                   /\ exporting' = JNull
                   /\ lastOp' = "exportRejected"
                   /\ UNCHANGED verifying
              ELSE IF ~IsValid(outcome)
              THEN /\ inflight' = inflight (-) One_(r)
                   /\ panelError' = JText("Please fix validation errors before exporting")
                   /\ exporting' = JNull
                   /\ lastOp' = "exportInvalid"
                   /\ UNCHANGED verifying
              ELSE /\ inflight' = (inflight (-) One_(r)) (+) One_(ExportFnCall(r.format))
                   /\ lastOp' = "exportValidated"
                   /\ UNCHANGED panelVars
         [] r.by = "verify" ->
              IF outcome = "rejected"
              THEN /\ inflight' = inflight (-) One_(r)
                   /\ panelError' = JText("Verify failed")
                   /\ verifying' = FALSE
                   /\ lastOp' = "verifyRejected"
                   /\ UNCHANGED exporting
              ELSE IF ~IsValid(outcome)
              THEN /\ inflight' = inflight (-) One_(r)
                   /\ panelError' = JText("Please fix validation errors before verifying")
                   /\ verifying' = FALSE
                   /\ lastOp' = "verifyInvalid"
                   /\ UNCHANGED exporting
              ELSE /\ inflight' = (inflight (-) One_(r)) (+) One_(OnVerifyCall)
                   /\ lastOp' = "verifyValidated"
                   /\ UNCHANGED panelVars
    /\ UNCHANGED <<schema, fields, nameValue, selectedTemplate, loading, snapshot,
                   cardVars, zodVars, templateVars>>

\* exportFn(filename) settles: catch on rejection, setExporting(null) in finally
ExportFnSettle(r, outcome) ==
    /\ BagIn(r, inflight) /\ r.kind = "exportFn"
    /\ inflight' = inflight (-) One_(r)
    /\ panelError' = IF outcome = "rejected" THEN JText("Export failed") ELSE panelError
    /\ exporting' = JNull
    /\ lastOp' = IF outcome = "rejected" THEN "exportFailed" ELSE "exported"
    /\ UNCHANGED <<schema, fields, nameValue, selectedTemplate, loading, error,
                   validating, validationResult, snapshot, verifying, cardVars, zodVars, templateVars>>

\* onVerify() settles: catch on rejection, setVerifying(false) in finally
OnVerifySettle(r, outcome) ==
    /\ BagIn(r, inflight) /\ r.kind = "onVerify"
    /\ inflight' = inflight (-) One_(r)
    /\ panelError' = IF outcome = "rejected" THEN JText("Verify failed") ELSE panelError
    /\ verifying' = FALSE
    /\ lastOp' = IF outcome = "rejected" THEN "verifyFailed" ELSE "verified"
    /\ UNCHANGED <<schema, fields, nameValue, selectedTemplate, loading, error,
                   validating, validationResult, snapshot, exporting, cardVars, zodVars, templateVars>>

NextPanel ==
    \/ \E format \in Formats : ClickExport(format)
    \/ ClickValidate
    \/ ClickVerify
    \/ ClickReset
    \/ \E v \in NameValues : SetFieldValue(v)
    \/ \E r \in Requests, outcome \in ValidateOutcomes : OnValidateSettle(r, outcome)
    \/ \E r \in Requests, outcome \in PromiseOutcomes : ExportFnSettle(r, outcome)
    \/ \E r \in Requests, outcome \in PromiseOutcomes : OnVerifySettle(r, outcome)

SpecPanel == InitPanel /\ [][NextPanel]_vars

ExportFnCalls(bag) ==
    BagCardinality([r \in {x \in BagToSet(bag) : x.kind = "exportFn"} |-> CopiesIn(r, bag)])
ExportRunning ==
    \E r \in Requests : r.kind = "exportFn" \/ (r.kind = "onValidate" /\ r.by = "export")

IsOriginal(field) == field.id <= Len(ListItems)

\* C1: after any sequence of Add Item, Remove, Move up and Move down, every
\* surviving item of schema.items is rendered with the schema (idShort,
\* qualifiers, semanticId) of the item it originated from, whatever its
\* position.
C1_MetadataFollowsItem ==
    schema # JNull =>
        \A p \in 1..Len(fields) :
            IsOriginal(fields[p]) =>
                LET shown == getItemSchema(p - 1)
                    origin == ListItems[fields[p].id]
                IN  /\ shown.idShort = origin.idShort
                    /\ shown.qualifiers = origin.qualifiers
                    /\ shown.semanticId = origin.semanticId

\* C2: an item appended with Add Item is always shown with the projection
\* of the list's itemTemplate, never with the schema of an item of
\* schema.items.
C2_AddedItemUsesTemplate ==
    (schema # JNull /\ ~Nullish(itemTemplate)) =>
        \A p \in 1..Len(fields) :
            ~IsOriginal(fields[p]) =>
                LET shown == getItemSchema(p - 1)
                IN  /\ [shown EXCEPT !.idShort = itemTemplate.idShort] = itemTemplate
                    /\ \A i \in 1..Len(ListItems) : shown # ListItems[i]

\* C3 as claimed: for every list cardinality and every initial item count,
\* Add Item followed by Remove of the appended item restores the original
\* item sequence.
C3_AddThenRemoveRestores ==
    lastOp = "addRemove" => fields = snapshot

\* C3 as amended: Add Item followed by Remove of the appended item restores
\* the original item sequence whenever the count after the add exceeds
\* getMinItems(cardinality); otherwise (an empty list whose minimum is 1)
\* the Remove is refused and the appended item stays.
C3_AddThenRemoveRestoresAboveMin ==
    lastOp = "addRemove" =>
        IF Len(snapshot) + 1 > minItems
        THEN fields = snapshot
        ELSE /\ Len(fields) = Len(snapshot) + 1
             /\ SubSeq(fields, 1, Len(snapshot)) = snapshot
             /\ ~IsOriginal(fields[Len(fields)])

C3_Witness ==
    /\ lastOp = "addRemove"
    /\ ListSchema.cardinality = OneToMany
    /\ Len(snapshot) = 2
    /\ snapshot[1].id = 2
    /\ fields = snapshot

FormLayerOps ==
    {"setValue", "add", "addRemove", "remove", "moveUp", "moveDown", "validate",
     "export", "resetForm"}

\* C4: no form-layer operation (setting a field value, list add / remove /
\* move, validate, export, resetForm) changes the loaded schema or the
\* qualifiers and semantic ids it carries; the schema changes only in the
\* step where a loadSchema request succeeds.
C4_SchemaChangesOnlyOnLoad ==
    [][/\ lastOp' \in FormLayerOps => schema' = schema
       /\ schema' # schema =>
             \E r \in Requests :
                 /\ r.kind = "getTemplateSchema"
                 /\ inflight' = inflight (-) One_(r)
                 /\ schema' = SchemaOf(r.name)]_vars

C4_Witness ==
    /\ schema = SchemaOf("Nameplate")
    /\ lastOp = "resetForm"
    /\ validating
    /\ error # JNull


WithinBounds(count) ==
    /\ minItems <= count
    /\ IF maxItems.k = "undefined" THEN TRUE ELSE count <= maxItems.whole

\* C18: if a list starts with an item count within its resolved bounds, then
\* after any sequence of Add Item and Remove actions that the UI permits
\* the count stays within [getMinItems(cardinality), getMaxItems(cardinality)].
C18_CountStaysWithinBounds ==
    (schema # JNull /\ WithinBounds(Len(ListItems))) => WithinBounds(Len(fields))

C18_Witness ==
    /\ ListSchema.cardinality = BR01
    /\ Len(ListItems) = 0
    /\ lastOp = "add"
    /\ Len(fields) = 1
    /\ ~canAdd

\* the items at positions i and j (from 1) exchanged
Exchange(fs, i, j) ==
    [p \in 1..Len(fs) |-> IF p = i THEN fs[j] ELSE IF p = j THEN fs[i] ELSE fs[p]]
IdsOf(fs) == {fs[p].id : p \in 1..Len(fs)}

\* C19: Move up on index 0 and Move down on the last index leave the list
\* unchanged; every other move exchanges the item with its neighbour; so a
\* move preserves the list length and the set of items: no item is created,
\* duplicated or destroyed.
C19_MoveIsNeighbourExchange ==
    /\ [](schema # JNull =>
            \A index \in Indexes :
                /\ handleMoveUp(fields, index) =
                      IF index = 0 THEN fields ELSE Exchange(fields, index, index + 1)
                /\ handleMoveDown(fields, index) =
                      IF index = Len(fields) - 1 THEN fields
                      ELSE Exchange(fields, index + 1, index + 2))
    /\ [][lastOp' \in {"moveUp", "moveDown"} =>
            /\ \E index \in Indexes :
                  fields' = IF lastOp' = "moveUp" THEN handleMoveUp(fields, index)
                            ELSE handleMoveDown(fields, index)
            /\ Len(fields') = Len(fields)
            /\ IdsOf(fields') = IdsOf(fields)
            /\ Cardinality(IdsOf(fields')) = Len(fields')
            /\ \A p \in 1..Len(fields') : \E q \in 1..Len(fields) : fields'[p] = fields[q]]_vars

C19_Witness ==
    /\ lastOp = "moveDown"
    /\ Len(fields) = 3
    /\ fields[1].id = 2 /\ fields[2].id = 3 /\ fields[3].id = 1


\* The shape of a form value: the keys of an object, each with the shape of
\* its value; an array; or a scalar.
RECURSIVE Shape(_)
Shape(v) ==
    IF v.k = "object"
    THEN [k |-> "object",
          keys |-> {<<v.props[i][1], Shape(v.props[i][2])>> : i \in 1..Len(v.props)}]
    ELSE IF v.k = "array" THEN [k |-> "array"]
    ELSE [k |-> "scalar"]
\* a container key of a form value that the validator does not find
IsShapeIssue(issue) ==
    /\ issue.code = "invalid_type"
    /\ issue.path # <<>>
    /\ issue.path[Len(issue.path)] \in {"items", "statements", "elements"}

\* C20: for every item template type, the value createDefaultItem builds for
\* a newly added item has the shape that generateElementDefaults produces
\* for the template and that generateZodSchema requires for it, so a freshly
\* added, untouched item causes no shape mismatch.
C20_NewItemHasSchemaShape ==
    (schema # JNull /\ ~Nullish(itemTemplate)) =>
        \A p \in 1..Len(fields) :
            ~IsOriginal(fields[p]) =>
                LET value == fields[p].value
                    parsed == ZodSafeParse(generateZodSchema(itemTemplate), value)
                IN  /\ Shape(value) = Shape(generateElementDefaults(itemTemplate))
                    /\ \A i \in 1..Len(parsed.issues) : ~IsShapeIssue(parsed.issues[i])


\* form.getValues(): the form values as one SubmodelFormData
FormValues ==
    JObj(<<<<"elements",
            JObj(<<<<"Name", JObj(<<<<"value", nameValue>>>>)>>,
                   <<"Markings",
                     JObj(<<<<"items", JArr([i \in 1..Len(fields) |-> fields[i].value])>>>>)>>>>)>>>>)

\* C21: resetForm sets the form values to generateDefaultValues(schema) and
\* clears validationResult to null, and leaves schema, loading, error and
\* validating as they were; with no schema loaded it changes nothing.
C21_ResetFormFrame ==
    [][lastOp' = "resetForm" =>
          /\ UNCHANGED <<schema, loading, error, validating, selectedTemplate, inflight>>
          /\ IF schema # JNull
             THEN /\ FormValues' = generateDefaultValues(schema)
                  /\ validationResult' = JNull
             ELSE UNCHANGED <<fields, nameValue, validationResult>>]_vars

C21_Witness ==
    /\ lastOp = "resetForm"
    /\ schema = SchemaOf("Nameplate")
    /\ FormValues = generateDefaultValues(schema)
    /\ Len(fields) = 2
    /\ validationResult = JNull
    /\ validating
    /\ loading
    /\ error # JNull


(***************************************************************************)
(* useTemplateList (as used by TemplateSelector): the search query, the    *)
(* mount effect, the debounced search effect, reload and refresh.  Time    *)
(* passes in steps of TickMs.                                              *)
(***************************************************************************)
DebounceMs == 300
TickMs == 100
MaxListRequests == 3   \* template-list and refresh requests awaiting their response

Queries == {"", "Name", "Contact"}

\* what the backend returns for GET /api/templates?search=query: the
\* templates whose name holds the query
TemplatesFor(query) ==
    CASE query = "" -> <<"ContactInformation", "Nameplate">>
      [] query = "Name" -> <<"Nameplate">>
      [] query = "Contact" -> <<"ContactInformation">>

ListRequest(query) == [kind |-> "listTemplates", query |-> query]
\* refresh() holds the search of the render it was created in
RefreshRequest(query) == [kind |-> "refreshTemplateCache", query |-> query]
ListRequests == BagToSet(listInflight)

\* loadTemplates(searchQuery) up to its await, over the requests in `bag`
LoadTemplatesStarts(query, bag) ==
    /\ listLoading' = TRUE
    /\ listError' = JNull
    /\ listInflight' = bag (+) One_(ListRequest(query))

\* the state after the first render and its effects: the mount effect has
\* called loadTemplates(search) if autoLoad, and the debounced search effect
\* has set its timer
InitTemplates ==
    /\ autoLoad \in BOOLEAN
    /\ search = ""
    /\ templates = <<>>
    /\ total = 0
    /\ cached = FALSE
    /\ listLoading = autoLoad
    /\ listError = JNull
    /\ timer = [query |-> "", left |-> DebounceMs]
    /\ listInflight = IF autoLoad THEN One_(ListRequest("")) ELSE EmptyBag
    /\ unchangedFor = 0
    /\ FormIdle
    /\ CardIdle
    /\ ZodIdle

\* setSearch(query) from the search input, and the effects of the render
\* that follows: the effect on [autoLoad, loadTemplates, search] calls
\* loadTemplates(search) if autoLoad; the debounced effect clears its timer
\* and sets a new one
SetSearch(query) ==
    /\ query # search
    /\ search' = query
    /\ unchangedFor' = 0
    /\ timer' = [query |-> query, left |-> DebounceMs]
    /\ IF autoLoad
       THEN /\ BagCardinality(listInflight) < MaxListRequests
            /\ LoadTemplatesStarts(query, listInflight)
       ELSE UNCHANGED <<listLoading, listError, listInflight>>
    /\ lastOp' = "setSearch"
    /\ UNCHANGED <<autoLoad, templates, total, cached,
                   cardVars, zodVars, hookVars, fields, snapshot, panelVars>>

\* TickMs milliseconds pass
Tick ==
    /\ unchangedFor < DebounceMs
    /\ unchangedFor' = IF unchangedFor + TickMs > DebounceMs THEN DebounceMs
                       ELSE unchangedFor + TickMs
    /\ timer' = IF timer = JNull THEN JNull
                ELSE [timer EXCEPT !.left = IF @ > TickMs THEN @ - TickMs ELSE 0]
    /\ lastOp' = "tick"
    /\ UNCHANGED <<autoLoad, search, templates, total, cached, listLoading, listError,
                   listInflight, cardVars, zodVars, hookVars, fields, snapshot, panelVars>>

\* the timer of the debounced search effect runs: loadTemplates(search)
TimerFires ==
    /\ timer # JNull
    /\ timer.left = 0
    /\ BagCardinality(listInflight) < MaxListRequests
    /\ timer' = JNull
    /\ LoadTemplatesStarts(timer.query, listInflight)
    /\ lastOp' = "debounce"
    /\ UNCHANGED <<autoLoad, search, templates, total, cached, unchangedFor,
                   cardVars, zodVars, hookVars, fields, snapshot, panelVars>>

\* reload(): loadTemplates(search)
Reload ==
    /\ BagCardinality(listInflight) < MaxListRequests
    /\ LoadTemplatesStarts(search, listInflight)
    /\ lastOp' = "reload"
    /\ UNCHANGED <<autoLoad, search, templates, total, cached, timer, unchangedFor,
                   cardVars, zodVars, hookVars, fields, snapshot, panelVars>>

\* refresh() up to `await refreshTemplateCache()`, from the Refresh button
\* (disabled while loading) or from the Retry button of the error notice
Refresh ==
    /\ ~listLoading \/ listError # JNull
    /\ BagCardinality(listInflight) < MaxListRequests
    /\ listLoading' = TRUE
    /\ listError' = JNull
    /\ listInflight' = listInflight (+) One_(RefreshRequest(search))
    /\ lastOp' = "refresh"
    /\ UNCHANGED <<autoLoad, search, templates, total, cached, timer, unchangedFor,
                   cardVars, zodVars, hookVars, fields, snapshot, panelVars>>

\* loadTemplates after its await, the request answered; refresh(), if it
\* awaited this call, ends with the same setLoading(false)
ListTemplatesResolve(r, fromCache) ==
    /\ BagIn(r, listInflight) /\ r.kind = "listTemplates"
    /\ listInflight' = listInflight (-) One_(r)
    /\ templates' = TemplatesFor(r.query)
    /\ total' = Len(TemplatesFor(r.query))
    /\ cached' = fromCache
    /\ listLoading' = FALSE
    /\ lastOp' = "listResolved"
    /\ UNCHANGED <<autoLoad, search, listError, timer, unchangedFor,
                   cardVars, zodVars, hookVars, fields, snapshot, panelVars>>

\* loadTemplates after its await, the request failed
ListTemplatesReject(r) ==
    /\ BagIn(r, listInflight) /\ r.kind = "listTemplates"
    /\ listInflight' = listInflight (-) One_(r)
    /\ listError' = JText("Failed to load templates")
    /\ templates' = <<>>
    /\ total' = 0
    /\ listLoading' = FALSE
    /\ lastOp' = "listRejected"
    /\ UNCHANGED <<autoLoad, search, cached, timer, unchangedFor,
                   cardVars, zodVars, hookVars, fields, snapshot, panelVars>>

\* refresh() after `await refreshTemplateCache()`: loadTemplates(search),
\* with the search refresh() was created with
RefreshCacheResolve(r) ==
    /\ BagIn(r, listInflight) /\ r.kind = "refreshTemplateCache"
    /\ LoadTemplatesStarts(r.query, listInflight (-) One_(r))
    /\ lastOp' = "cacheRefreshed"
    /\ UNCHANGED <<autoLoad, search, templates, total, cached, timer, unchangedFor,
                   cardVars, zodVars, hookVars, fields, snapshot, panelVars>>

\* refresh(): refreshTemplateCache() failed; catch and finally
RefreshCacheReject(r) ==
    /\ BagIn(r, listInflight) /\ r.kind = "refreshTemplateCache"
    /\ listInflight' = listInflight (-) One_(r)
    /\ listError' = JText("Failed to refresh templates")
    /\ listLoading' = FALSE
    /\ lastOp' = "refreshFailed"
    /\ UNCHANGED <<autoLoad, search, templates, total, cached, timer, unchangedFor,
                   cardVars, zodVars, hookVars, fields, snapshot, panelVars>>

NextTemplates ==
    \/ \E query \in Queries : SetSearch(query)
    \/ Tick
    \/ TimerFires
    \/ Reload
    \/ Refresh
    \/ \E r \in ListRequests, fromCache \in BOOLEAN : ListTemplatesResolve(r, fromCache)
    \/ \E r \in ListRequests : ListTemplatesReject(r)
    \/ \E r \in ListRequests : RefreshCacheResolve(r)
    \/ \E r \in ListRequests : RefreshCacheReject(r)

SpecTemplates == InitTemplates /\ [][NextTemplates]_vars

\* the template-list requests of a bag, counted
ListCalls(bag) ==
    BagCardinality([r \in {x \in BagToSet(bag) : x.kind = "listTemplates"} |-> CopiesIn(r, bag)])

\* C22: search is debounced (autoLoad = true): a search change or the
\* debounce timer issues a template-list request only once the query has
\* stayed unchanged for 300 ms, so a query replaced within 300 ms causes no
\* request at all.
C22_SearchIsDebounced ==
    [][(autoLoad /\ lastOp' \in {"setSearch", "debounce"}
            /\ ListCalls(listInflight') > ListCalls(listInflight)) =>
          /\ unchangedFor' >= DebounceMs
          /\ listInflight' = listInflight (+) One_(ListRequest(search'))]_vars

\* C24: once every template-list request has settled (none in flight, none
\* waiting for the debounce timer, the last one answered), the templates and
\* the total shown are those returned for the current search query.
C24_LatestQueryShown ==
    (listInflight = EmptyBag /\ timer = JNull /\ listError = JNull) =>
        /\ templates = TemplatesFor(search)
        /\ total = Len(TemplatesFor(search))

\* C25: loading is true whenever at least one template-list or refresh
\* request is in flight, and false when none is.
C25_LoadingIffInFlight ==
    listLoading <=> (listInflight # EmptyBag)


SchemaRequestInFlight == \E r \in Requests : r.kind = "getTemplateSchema"

\* C23: whenever no schema request is in flight, the schema held by
\* useSubmodelForm is the one returned for the currently selected template,
\* so neither the form nor the export panel presents one template's schema
\* under another template's name.
C23_SchemaIsOfSelectedTemplate ==
    (~SchemaRequestInFlight /\ (FormVisible \/ PanelVisible)) =>
        schema = SchemaOf(selectedTemplate.text)


\* C26: a non-null validationResult refers to the loaded template and
\* schema: the step in which the schema of a different template is loaded
\* leaves no validation result of the previous one.
C26_LoadClearsValidationResult ==
    [][(schema # JNull /\ schema' # JNull
            /\ schema'.templateName # schema.templateName) =>
          validationResult' = JNull]_vars


\* the calls of onValidate in a bag, counted: each is one validateFormData
\* request of the hook's validate
ValidateCalls(bag) ==
    BagCardinality([r \in {x \in BagToSet(bag) : x.kind = "onValidate"} |-> CopiesIn(r, bag)])

\* C27: at most one backend validation request is in flight at any time:
\* while a validation started from the Validate, Verify or an Export control
\* is running, no control of ExportPanel starts a second one.
C27_OneValidationInFlight == ValidateCalls(inflight) <= 1

\* the requests of running handleExport / handleVerify invocations
IsOperationCall(r) ==
    \/ r.kind \in {"exportFn", "onVerify"}
    \/ r.kind = "onValidate" /\ r.by \in {"export", "verify"}
OperationCalls(bag) ==
    BagCardinality([r \in {x \in BagToSet(bag) : IsOperationCall(x)} |-> CopiesIn(r, bag)])
PanelClicks == {"clickExport", "clickValidate", "clickVerify", "resetForm"}

====
